---- MODULE Spec2Model ----
(***************************************************************************)
(* Noether perpetual-futures engine: the Market contract (position ledger, *)
(* margin engine, funding controller, trading engine) and the Vault        *)
(* contract (liquidity pool and settlement), with the token balances of    *)
(* every account that takes part.                                          *)
(*                                                                         *)
(* Every contract entry point is one atomic action.  A handler is written  *)
(* as the code runs it: it threads a "world" (market storage, vault        *)
(* storage, token balances, the transfers made so far) through its steps.  *)
(* A `return Err(..)` yields the world as it stands at that statement; a   *)
(* trap (a token transfer the token contract refuses, a failed             *)
(* cross-contract call) aborts the invocation and the host discards every  *)
(* write of the invocation.                                                *)
(***************************************************************************)
EXTENDS Integers, Sequences, FiniteSets, TLC

\* ------------------------------------------------------------------------
\* Bounds of the model
\* ------------------------------------------------------------------------

\* Highest position id the model allocates (guard of open_position).
MaxPositionId == 2

\* Number of clock advances; each advances the ledger time by TimeStep.
MaxTicks == 2

\* Deposits are accepted while fewer than this many shares exist: the share
\* supply has no bound in the code (i128), and the products of the share
\* arithmetic must stay within the integers of the model checker.
MaxGlpSupply == 100000

\* Number of clock advances where funding applications are followed over
\* several intervals.
MaxFundingTicks == 5

\* Seconds per clock advance: half the funding interval, so that whole and
\* fractional hours both occur.
TimeStep == 3600 \div 2

\* ------------------------------------------------------------------------
\* Program constants
\* ------------------------------------------------------------------------

PRECISION == 10000000

BASIS_POINTS == 10000

FUNDING_INTERVAL == 3600

\* Configuration handed to Market::initialize.  The basis-point settings are
\* those of MarketConfig::default(); the amounts are scaled to whole units.
Config ==
  [ min_collateral         |-> 100,
    max_leverage           |-> 10,
    maintenance_margin_bps |-> 100,
    liquidation_fee_bps    |-> 500,
    trading_fee_bps        |-> 10,
    base_funding_rate_bps  |-> 10,
    max_position_size      |-> 100000,
    max_price_staleness    |-> 60 ]

\* Fees handed to Vault::initialize (the storage defaults).
DepositFeeBps == 30

WithdrawFeeBps == 30

\* ------------------------------------------------------------------------
\* Accounts and inputs
\* ------------------------------------------------------------------------

MarketAddr == "market"

VaultAddr == "vault"

Traders == {"t1", "t2"}

Providers == {"lp"}

Keepers == {"k1", "t2"}

Admin == "admin"

Accounts == Traders \cup Providers \cup Keepers \cup {Admin, MarketAddr, VaultAddr}

Directions == {"Long", "Short"}

\* Prices the oracle may report.  At leverage 2 a Long opened at 200 has
\* liquidation price 102 and a Short opened at 102 has liquidation price 151:
\* the two prices give a liquidation exactly at the threshold (equity left)
\* and one far beyond it (bad debt).
Prices == {102, 200}

\* Inputs of open_position.
Collaterals == {10000}

Leverages == {2}

\* Inputs of add_collateral.
TopUps == {10000}

\* Amounts add_collateral rejects.
InvalidTopUps == {0}

\* Inputs of emergency_withdraw.
EmergencyAmounts == {10000}

\* Inputs of deposit and withdraw.
DepositAmounts == {20000}

WithdrawShares == {10000}

InitialBalance ==
  [a \in Accounts |->
     IF a = "t1" THEN 20000
     ELSE IF a = "t2" THEN 10000
     ELSE IF a \in Providers THEN 20000
     ELSE 0]

\* ------------------------------------------------------------------------
\* Integer arithmetic of the code: i128 division truncates toward zero
\* ------------------------------------------------------------------------

Abs(x) == IF x < 0 THEN -x ELSE x

\* a / b of Rust, for b # 0.
Div(a, b) ==
  IF (a >= 0) = (b > 0) THEN Abs(a) \div Abs(b) ELSE -(Abs(a) \div Abs(b))

Max(a, b) == IF a >= b THEN a ELSE b

Min(a, b) == IF a <= b THEN a ELSE b

\* ------------------------------------------------------------------------
\* noether_common::math
\* ------------------------------------------------------------------------

\* Faulty variant of calculate_position_size: the leverage is left out.
calculate_position_size_unlevered(collateral, leverage) == collateral

calculate_position_size(collateral, leverage) == collateral * leverage

calculate_liquidation_price(entry_price, leverage, direction, maintenance_margin_bps) ==
  LET leverage_factor == Div(PRECISION, leverage)
      margin_factor   == Div(maintenance_margin_bps * PRECISION, BASIS_POINTS)
      adjustment      == leverage_factor - margin_factor
  IN  IF direction = "Long"
      THEN entry_price - Div(entry_price * adjustment, PRECISION)
      ELSE entry_price + Div(entry_price * adjustment, PRECISION)

\* Faulty variant of calculate_pnl: a Short is valued as a Long.
calculate_pnl_as_long(position, current_price) ==
  Div(position.size * (current_price - position.entry_price), position.entry_price)

\* Defined for entry_price # 0; open_position stores only prices > 0.
calculate_pnl(position, current_price) ==
  IF position.direction = "Long"
  THEN Div(position.size * (current_price - position.entry_price), position.entry_price)
  ELSE Div(position.size * (position.entry_price - current_price), position.entry_price)

\* The Result of calculate_pnl: Err(DivisionByZero) or Ok(pnl).
calculate_pnl_result(position, current_price) ==
  IF position.entry_price = 0 THEN [err |-> "DivisionByZero", value |-> 0]
  ELSE [err |-> "Ok", value |-> calculate_pnl(position, current_price)]

\* Faulty variant of should_liquidate: strict comparisons, so a price exactly
\* at the liquidation price does not liquidate.
should_liquidate_strict(position, current_price) ==
  IF position.direction = "Long"
  THEN current_price < position.liquidation_price
  ELSE current_price > position.liquidation_price

should_liquidate(position, current_price) ==
  IF position.direction = "Long"
  THEN current_price <= position.liquidation_price
  ELSE current_price >= position.liquidation_price

calculate_keeper_reward(remaining_collateral, liquidation_fee_bps) ==
  IF remaining_collateral <= 0 THEN 0
  ELSE Div(remaining_collateral * liquidation_fee_bps, BASIS_POINTS)

\* Faulty variant of calculate_funding_rate: the imbalance is taken relative
\* to the sum of both sides.
calculate_funding_rate_of_total(total_long_size, total_short_size, base_rate_bps) ==
  LET total == total_long_size + total_short_size
  IN  IF total = 0 THEN 0
      ELSE Div(base_rate_bps
                 * Div((total_long_size - total_short_size) * BASIS_POINTS, total),
               BASIS_POINTS)

calculate_funding_rate(total_long_size, total_short_size, base_rate_bps) ==
  IF total_long_size = 0 /\ total_short_size = 0 THEN 0
  ELSE IF total_long_size = total_short_size THEN 0
  ELSE IF total_long_size > total_short_size
  THEN IF total_long_size = 0 THEN 0
       ELSE LET imbalance ==
                  Div((total_long_size - total_short_size) * BASIS_POINTS, total_long_size)
            IN  Div(base_rate_bps * imbalance, BASIS_POINTS)
  ELSE IF total_short_size = 0 THEN 0
       ELSE LET imbalance ==
                  Div((total_short_size - total_long_size) * BASIS_POINTS, total_short_size)
            IN  -Div(base_rate_bps * imbalance, BASIS_POINTS)

\* Faulty variant of calculate_funding_payment: a Short pays what a Long pays.
calculate_funding_payment_unsigned(position_size, funding_rate, direction, hours_elapsed) ==
  IF hours_elapsed = 0 THEN 0
  ELSE Div(position_size * funding_rate * hours_elapsed, BASIS_POINTS)

calculate_funding_payment(position_size, funding_rate, direction, hours_elapsed) ==
  IF hours_elapsed = 0 THEN 0
  ELSE LET payment == Div(position_size * funding_rate * hours_elapsed, BASIS_POINTS)
       IN  IF direction = "Long" THEN payment ELSE -payment

\* market/src/funding.rs
calculate_funding_payment_internal(position_size, funding_rate, direction, hours_elapsed) ==
  IF hours_elapsed = 0 \/ funding_rate = 0 THEN 0
  ELSE LET base_payment ==
             Div(position_size * Abs(funding_rate) * hours_elapsed, BASIS_POINTS)
       IN  IF direction = "Long"
           THEN IF funding_rate > 0 THEN base_payment ELSE -base_payment
           ELSE IF funding_rate > 0 THEN -base_payment ELSE base_payment

\* Faulty variant of calculate_trading_fee: the fee is rounded up.
calculate_trading_fee_rounded_up(position_size, fee_bps) ==
  Div(position_size * fee_bps + BASIS_POINTS - 1, BASIS_POINTS)

calculate_trading_fee(position_size, fee_bps) ==
  Div(position_size * fee_bps, BASIS_POINTS)

\* Faulty variant of calculate_glp_for_deposit: always 1:1.
calculate_glp_for_deposit_at_par(usdc_amount, total_glp, aum) == usdc_amount

calculate_glp_for_deposit(usdc_amount, total_glp, aum) ==
  IF total_glp = 0 \/ aum = 0 THEN usdc_amount
  ELSE Div(usdc_amount * total_glp, aum)

\* Defined for total_glp # 0 (the code returns DivisionByZero otherwise).
calculate_usdc_for_withdrawal(glp_amount, total_glp, aum) ==
  Div(glp_amount * aum, total_glp)

calculate_glp_price(total_glp, aum) ==
  IF total_glp = 0 THEN PRECISION ELSE Div(aum * PRECISION, total_glp)

\* ------------------------------------------------------------------------
\* State
\* ------------------------------------------------------------------------

VARIABLES
  market,    \* storage of the Market contract
  vault,     \* storage of the Vault contract
  balance,   \* token balance of every account
  now,       \* ledger timestamp
  last       \* the last invocation: entry point, arguments, outcome

vars == <<market, vault, balance, now, last>>

\* Market storage after initialize (market/src/lib.rs:103-111).
MarketInit ==
  [ positions            |-> <<>>,
    trader_positions     |-> [t \in Traders |-> <<>>],
    all_positions        |-> <<>>,
    position_counter     |-> 0,
    total_long_size      |-> 0,
    total_short_size     |-> 0,
    current_funding_rate |-> 0,
    last_funding_time    |-> 0,
    paused               |-> FALSE,
    config               |-> Config ]

\* Vault storage after initialize (vault/src/lib.rs:98-104).
VaultInit ==
  [ total_usdc     |-> 0,
    total_glp      |-> 0,
    unrealized_pnl |-> 0,
    total_fees     |-> 0,
    glp_balance    |-> [a \in Accounts |-> 0],
    deposit_fee_bps  |-> DepositFeeBps,
    withdraw_fee_bps |-> WithdrawFeeBps,
    paused         |-> FALSE ]

NoOracle == [price |-> 0, timestamp |-> 0]

NoCall ==
  [ op |-> "none", err |-> "Ok", caller |-> "none", id |-> 0, amount |-> 0,
    leverage |-> 0, oracle |-> NoOracle, ret |-> 0, log |-> <<>> ]

Init ==
  /\ market = MarketInit
  /\ vault = VaultInit
  /\ balance = InitialBalance
  /\ now = 0
  /\ last = NoCall

\* ------------------------------------------------------------------------
\* The world a handler runs in
\* ------------------------------------------------------------------------

World(m, v, b) == [m |-> m, v |-> v, b |-> b, log |-> <<>>, trap |-> FALSE]

\* token::Client::transfer, executed by contract `by`: the token contract
\* refuses a negative amount and an amount above the sender's balance, and
\* the invocation traps.
Transfer(w, by, from, to, amount) ==
  IF w.trap THEN w
  ELSE IF amount < 0 \/ w.b[from] < amount THEN [w EXCEPT !.trap = TRUE]
  ELSE [w EXCEPT
          !.b   = [a \in Accounts |->
                     IF a = from /\ a = to THEN w.b[a]
                     ELSE IF a = from THEN w.b[a] - amount
                     ELSE IF a = to THEN w.b[a] + amount
                     ELSE w.b[a]],
          !.log = Append(w.log, [by |-> by, from |-> from, to |-> to, amount |-> amount])]

\* Outcome of a handler: err = "Ok" on success, else the error; w the world
\* it leaves; ret the returned value.
Outcome(err, w, ret) == [err |-> err, w |-> w, ret |-> ret]

\* The host's end of an invocation that ran from world w0 to outcome r: a
\* trap discards every write.
Finish(w0, r) ==
  IF r.w.trap
  THEN Outcome(IF r.err = "Ok" THEN "HostError" ELSE r.err, w0, 0)
  ELSE r

\* env.invoke_contract of a callee that ended with outcome r: the callee's
\* world on success; on an error the calling invocation traps with it.
Invoked(w, r) ==
  IF r.err = "Ok" THEN r ELSE Outcome(r.err, [w EXCEPT !.trap = TRUE], 0)

\* ------------------------------------------------------------------------
\* Vault: GLP shares (vault/src/glp.rs)
\* ------------------------------------------------------------------------

\* Faulty variant of mint: the total supply is not increased.
mint_balance_only(v, to, amount) ==
  [v EXCEPT !.glp_balance[to] = @ + amount]

mint(v, to, amount) ==
  [v EXCEPT !.glp_balance[to] = @ + amount, !.total_glp = @ + amount]

\* The caller has checked the balance; the assert of the code never fires.
burn(v, from, amount) ==
  [v EXCEPT !.glp_balance[from] = @ - amount, !.total_glp = @ - amount]

\* glp::transfer after its assert: the sender's balance is written first and
\* the recipient's is read after that write.
transfer(v, from, to, amount) ==
  LET v1 == [v EXCEPT !.glp_balance[from] = @ - amount]
  IN  [v1 EXCEPT !.glp_balance[to] = @ + amount]

\* The assert! of glp::burn and glp::transfer: the invocation panics unless
\* the holder has the amount.
assert_glp_balance(w, from, amount, v) ==
  IF w.v.glp_balance[from] >= amount
  THEN Outcome("Ok", [w EXCEPT !.v = v], 0)
  ELSE Outcome("Ok", [w EXCEPT !.trap = TRUE], 0)

\* ------------------------------------------------------------------------
\* Vault entry points (vault/src/lib.rs)
\* ------------------------------------------------------------------------

\* Faulty variant of calculate_aum_internal: no clamp at zero.
calculate_aum_internal_unclamped(v) ==
  v.total_usdc + v.total_fees - v.unrealized_pnl

calculate_aum_internal(v) ==
  LET aum == v.total_usdc + v.total_fees - v.unrealized_pnl
  IN  IF aum < 0 THEN 0 ELSE aum

\* Views: the stores are read, nothing is written.
get_aum(w) == Outcome("Ok", w, calculate_aum_internal(w.v))

get_glp_price(w) ==
  Outcome("Ok", w, calculate_glp_price(w.v.total_glp, calculate_aum_internal(w.v)))

\* Callable by the Market contract only (market_contract.require_auth()).
update_unrealized_pnl(w, new_pnl) ==
  Outcome("Ok", [w EXCEPT !.v.unrealized_pnl = new_pnl], 0)

\* Faulty variant of deposit: the fee is added to the recorded deposits on top
\* of the amount received.
deposit_records_fee_twice(w, depositor, usdc_amount) ==
  LET fee         == Div(usdc_amount * w.v.deposit_fee_bps, BASIS_POINTS)
      net_amount  == usdc_amount - fee
      aum         == calculate_aum_internal(w.v)
      glp_to_mint == calculate_glp_for_deposit(net_amount, w.v.total_glp, aum)
      w1 == Transfer(w, VaultAddr, depositor, VaultAddr, usdc_amount)
      w2 == [w1 EXCEPT !.v.total_usdc = @ + usdc_amount + fee,
                     !.v.total_fees = @ + fee]
      w3 == [w2 EXCEPT !.v = mint(w2.v, depositor, glp_to_mint)]
  IN  IF w.v.paused THEN Outcome("Paused", w, 0)
      ELSE IF usdc_amount <= 0 THEN Outcome("InvalidAmount", w, 0)
      ELSE IF glp_to_mint <= 0 THEN Outcome("InvalidAmount", w, 0)
      ELSE Outcome("Ok", w3, glp_to_mint)

deposit(w, depositor, usdc_amount) ==
  LET fee         == Div(usdc_amount * w.v.deposit_fee_bps, BASIS_POINTS)
      net_amount  == usdc_amount - fee
      aum         == calculate_aum_internal(w.v)
      glp_to_mint == calculate_glp_for_deposit(net_amount, w.v.total_glp, aum)
      w1 == Transfer(w, VaultAddr, depositor, VaultAddr, usdc_amount)
      w2 == [w1 EXCEPT !.v.total_usdc = @ + usdc_amount, !.v.total_fees = @ + fee]
      w3 == [w2 EXCEPT !.v = mint(w2.v, depositor, glp_to_mint)]
  IN  IF w.v.paused THEN Outcome("Paused", w, 0)
      ELSE IF usdc_amount <= 0 THEN Outcome("InvalidAmount", w, 0)
      ELSE IF glp_to_mint <= 0 THEN Outcome("InvalidAmount", w, 0)
      ELSE Outcome("Ok", w3, glp_to_mint)

\* Faulty variant of withdraw: the recorded deposits fall by the net amount.
withdraw_decrements_net(w, withdrawer, glp_amount) ==
  LET glp_balance == w.v.glp_balance[withdrawer]
      total_glp   == w.v.total_glp
      aum         == calculate_aum_internal(w.v)
      gross_usdc  == calculate_usdc_for_withdrawal(glp_amount, total_glp, aum)
      fee         == Div(gross_usdc * w.v.withdraw_fee_bps, BASIS_POINTS)
      net_usdc    == gross_usdc - fee
      w1 == [w EXCEPT !.v = burn(w.v, withdrawer, glp_amount)]
      w2 == [w1 EXCEPT !.v.total_usdc = @ - net_usdc, !.v.total_fees = @ + fee]
      w3 == Transfer(w2, VaultAddr, VaultAddr, withdrawer, net_usdc)
  IN  IF w.v.paused THEN Outcome("Paused", w, 0)
      ELSE IF glp_amount <= 0 THEN Outcome("InvalidAmount", w, 0)
      ELSE IF glp_balance < glp_amount THEN Outcome("InsufficientGlpBalance", w, 0)
      ELSE IF total_glp = 0 THEN Outcome("DivisionByZero", w, 0)
      ELSE IF net_usdc <= 0 THEN Outcome("InvalidAmount", w, 0)
      ELSE IF net_usdc > w.b[VaultAddr] THEN Outcome("InsufficientLiquidity", w, 0)
      ELSE Outcome("Ok", w3, net_usdc)

withdraw(w, withdrawer, glp_amount) ==
  LET glp_balance == w.v.glp_balance[withdrawer]
      total_glp   == w.v.total_glp
      aum         == calculate_aum_internal(w.v)
      gross_usdc  == calculate_usdc_for_withdrawal(glp_amount, total_glp, aum)
      fee         == Div(gross_usdc * w.v.withdraw_fee_bps, BASIS_POINTS)
      net_usdc    == gross_usdc - fee
      w1 == [w EXCEPT !.v = burn(w.v, withdrawer, glp_amount)]
      w2 == [w1 EXCEPT !.v.total_usdc = @ - gross_usdc, !.v.total_fees = @ + fee]
      w3 == Transfer(w2, VaultAddr, VaultAddr, withdrawer, net_usdc)
  IN  IF w.v.paused THEN Outcome("Paused", w, 0)
      ELSE IF glp_amount <= 0 THEN Outcome("InvalidAmount", w, 0)
      ELSE IF glp_balance < glp_amount THEN Outcome("InsufficientGlpBalance", w, 0)
      ELSE IF total_glp = 0 THEN Outcome("DivisionByZero", w, 0)
      ELSE IF net_usdc <= 0 THEN Outcome("InvalidAmount", w, 0)
      ELSE IF net_usdc > w.b[VaultAddr] THEN Outcome("InsufficientLiquidity", w, 0)
      ELSE Outcome("Ok", w3, net_usdc)

\* Faulty variant of settle_pnl: the win is checked against the recorded
\* total only, not against the live token balance.
settle_pnl_unchecked_balance(w, pnl) ==
  IF pnl > 0
  THEN LET total_usdc == w.v.total_usdc
           w1 == Transfer(w, VaultAddr, VaultAddr, MarketAddr, pnl)
           w2 == [w1 EXCEPT !.v.total_usdc = total_usdc - pnl]
       IN  IF pnl > total_usdc THEN Outcome("InsufficientLiquidity", w, 0)
           ELSE Outcome("Ok", w2, 0)
  ELSE IF pnl < 0
  THEN LET loss == -pnl
       IN  Outcome("Ok", [w EXCEPT !.v.total_usdc = @ + loss], 0)
  ELSE Outcome("Ok", w, 0)

\* Faulty variant of settle_pnl: on a loss the vault pulls the tokens out of
\* the market's balance itself.
settle_pnl_pulls_loss(w, pnl) ==
  IF pnl > 0
  THEN LET total_usdc == w.v.total_usdc
           w1 == Transfer(w, VaultAddr, VaultAddr, MarketAddr, pnl)
           w2 == [w1 EXCEPT !.v.total_usdc = total_usdc - pnl]
       IN  IF pnl > total_usdc THEN Outcome("InsufficientLiquidity", w, 0)
           ELSE IF pnl > w.b[VaultAddr] THEN Outcome("InsufficientLiquidity", w, 0)
           ELSE Outcome("Ok", w2, 0)
  ELSE IF pnl < 0
  THEN LET loss == -pnl
           w1 == Transfer(w, VaultAddr, MarketAddr, VaultAddr, loss)
       IN  Outcome("Ok", [w1 EXCEPT !.v.total_usdc = @ + loss], 0)
  ELSE Outcome("Ok", w, 0)

\* Faulty variant of settle_pnl: a loss is not added to total_usdc.
settle_pnl_ignores_loss(w, pnl) ==
  IF pnl > 0
  THEN LET total_usdc == w.v.total_usdc
           w1 == Transfer(w, VaultAddr, VaultAddr, MarketAddr, pnl)
           w2 == [w1 EXCEPT !.v.total_usdc = total_usdc - pnl]
       IN  IF pnl > total_usdc THEN Outcome("InsufficientLiquidity", w, 0)
           ELSE IF pnl > w.b[VaultAddr] THEN Outcome("InsufficientLiquidity", w, 0)
           ELSE Outcome("Ok", w2, 0)
  ELSE Outcome("Ok", w, 0)

\* Faulty variant of settle_pnl: a win is paid only up to the AUM, which the
\* stored unrealized PnL lowers.
settle_pnl_capped_by_aum(w, pnl) ==
  IF pnl > 0
  THEN LET total_usdc == w.v.total_usdc
           paid == Min(pnl, calculate_aum_internal(w.v))
           w1 == Transfer(w, VaultAddr, VaultAddr, MarketAddr, paid)
           w2 == [w1 EXCEPT !.v.total_usdc = total_usdc - paid]
       IN  IF pnl > total_usdc THEN Outcome("InsufficientLiquidity", w, 0)
           ELSE IF pnl > w.b[VaultAddr] THEN Outcome("InsufficientLiquidity", w, 0)
           ELSE Outcome("Ok", w2, 0)
  ELSE IF pnl < 0
  THEN LET loss == -pnl
       IN  Outcome("Ok", [w EXCEPT !.v.total_usdc = @ + loss], 0)
  ELSE Outcome("Ok", w, 0)

\* Callable by the Market contract only (market_contract.require_auth()).
settle_pnl(w, pnl) ==
  IF pnl > 0
  THEN LET total_usdc == w.v.total_usdc
           w1 == Transfer(w, VaultAddr, VaultAddr, MarketAddr, pnl)
           w2 == [w1 EXCEPT !.v.total_usdc = total_usdc - pnl]
       IN  IF pnl > total_usdc THEN Outcome("InsufficientLiquidity", w, 0)
           ELSE IF pnl > w.b[VaultAddr] THEN Outcome("InsufficientLiquidity", w, 0)
           ELSE Outcome("Ok", w2, 0)
  ELSE IF pnl < 0
  THEN LET loss == -pnl
       IN  Outcome("Ok", [w EXCEPT !.v.total_usdc = @ + loss], 0)
  ELSE Outcome("Ok", w, 0)

\* Faulty variant of reserve_for_position: the live token balance is not
\* looked at.
reserve_for_position_recorded_only(w, amount) ==
  IF amount <= 0 THEN Outcome("InvalidAmount", w, 0)
  ELSE IF amount > w.v.total_usdc THEN Outcome("InsufficientLiquidity", w, 0)
  ELSE Outcome("Ok", w, 0)

\* Callable by the Market contract only; a check, no write.
reserve_for_position(w, amount) ==
  IF amount <= 0 THEN Outcome("InvalidAmount", w, 0)
  ELSE IF amount > w.v.total_usdc THEN Outcome("InsufficientLiquidity", w, 0)
  ELSE IF amount > w.b[VaultAddr] THEN Outcome("InsufficientLiquidity", w, 0)
  ELSE Outcome("Ok", w, 0)

\* Admin only; a fee above 10% is refused.
set_deposit_fee(w, fee_bps) ==
  IF fee_bps > 1000 THEN Outcome("InvalidParameter", w, 0)
  ELSE Outcome("Ok", [w EXCEPT !.v.deposit_fee_bps = fee_bps], 0)

set_withdraw_fee(w, fee_bps) ==
  IF fee_bps > 1000 THEN Outcome("InvalidParameter", w, 0)
  ELSE Outcome("Ok", [w EXCEPT !.v.withdraw_fee_bps = fee_bps], 0)

\* Admin only, and only while the vault is paused; total_usdc is not touched.
emergency_withdraw(w, amount, recipient) ==
  LET vault_balance == w.b[VaultAddr]
      w1 == Transfer(w, VaultAddr, VaultAddr, recipient, amount)
  IN  IF ~w.v.paused THEN Outcome("NotPaused", w, 0)
      ELSE IF amount <= 0 THEN Outcome("InvalidAmount", w, 0)
      ELSE IF amount > vault_balance THEN Outcome("InsufficientLiquidity", w, 0)
      ELSE Outcome("Ok", w1, 0)

\* Vault::pause and Vault::unpause (admin only).
vault_pause(w) == Outcome("Ok", [w EXCEPT !.v.paused = TRUE], 0)

vault_unpause(w) == Outcome("Ok", [w EXCEPT !.v.paused = FALSE], 0)

\* ------------------------------------------------------------------------
\* Market: position storage (market/src/storage.rs)
\* ------------------------------------------------------------------------

Contains(seq, x) == \E i \in 1..Len(seq) : seq[i] = x

Without(seq, x) == SelectSeq(seq, LAMBDA y : y # x)

has_position(m, id) == id \in DOMAIN m.positions

\* Faulty variant of next_position_id: the id after the number of live
\* positions, which hands a retired id out again.
next_position_id_reuse(m) == Len(m.all_positions) + 1

next_position_id(m) == m.position_counter + 1

\* Faulty variant of save_position: the id is appended to both lists without
\* looking for it first.
save_position_appends(m, position) ==
  LET id     == position.id
      trader == position.trader
      m1 == [m EXCEPT !.positions =
               [i \in (DOMAIN m.positions) \cup {id} |->
                  IF i = id THEN position ELSE m.positions[i]]]
      m2 == [m1 EXCEPT !.trader_positions[trader] = Append(@, id)]
      m3 == [m2 EXCEPT !.all_positions = Append(@, id)]
  IN  m3

save_position(m, position) ==
  LET id     == position.id
      trader == position.trader
      m1 == [m EXCEPT !.positions =
               [i \in (DOMAIN m.positions) \cup {id} |->
                  IF i = id THEN position ELSE m.positions[i]]]
      m2 == IF Contains(m1.trader_positions[trader], id) THEN m1
            ELSE [m1 EXCEPT !.trader_positions[trader] = Append(@, id)]
      m3 == IF Contains(m2.all_positions, id) THEN m2
            ELSE [m2 EXCEPT !.all_positions = Append(@, id)]
  IN  m3

\* Faulty variant of delete_position: an id that is not in a list takes the
\* list's last entry with it.
delete_position_drops_last(m, id, trader) ==
  LET Drop(seq) == IF Contains(seq, id) THEN Without(seq, id)
                   ELSE SubSeq(seq, 1, Len(seq) - 1)
  IN  [m EXCEPT
         !.positions = [i \in (DOMAIN m.positions) \ {id} |-> m.positions[i]],
         !.trader_positions[trader] = Drop(@),
         !.all_positions = Drop(@)]

delete_position(m, id, trader) ==
  [m EXCEPT
     !.positions = [i \in (DOMAIN m.positions) \ {id} |-> m.positions[i]],
     !.trader_positions[trader] = Without(@, id),
     !.all_positions = Without(@, id)]

get_position_count(m) == Len(m.all_positions)

\* ------------------------------------------------------------------------
\* Market: internal functions (market/src/lib.rs)
\* ------------------------------------------------------------------------

\* Faulty variant of get_oracle_price: the sign of the price is not looked at.
get_oracle_price_any_sign(config, oracle, current_time) ==
  IF current_time > oracle.timestamp
     /\ current_time - oracle.timestamp > config.max_price_staleness
  THEN "PriceStale"
  ELSE "Ok"

\* The oracle adapter's answer (price, timestamp) is an input of the call.
get_oracle_price(config, oracle, current_time) ==
  IF current_time > oracle.timestamp
     /\ current_time - oracle.timestamp > config.max_price_staleness
  THEN "PriceStale"
  ELSE IF oracle.price <= 0 THEN "InvalidPrice"
  ELSE "Ok"

check_vault_liquidity(w, amount) == Invoked(w, reserve_for_position(w, amount))

settle_with_vault(w, pnl) == Invoked(w, settle_pnl(w, pnl))

\* Faulty variant of apply_funding_to_position: the rate is the one the
\* present long/short totals imply, not the stored one.
apply_funding_to_position_live_rate(m, position, current_time) ==
  LET hours_elapsed == Div(current_time - position.last_funding_time, 3600)
      funding_payment ==
        calculate_funding_payment(
          position.size,
          calculate_funding_rate(m.total_long_size, m.total_short_size,
                                 m.config.base_funding_rate_bps),
          position.direction, hours_elapsed)
  IN  IF hours_elapsed = 0 THEN position
      ELSE [position EXCEPT !.accumulated_funding = @ + funding_payment,
                            !.last_funding_time = current_time]

\* Faulty variant of apply_funding_to_position: nothing is accrued.
apply_funding_to_position_none(m, position, current_time) == position

apply_funding_to_position(m, position, current_time) ==
  LET hours_elapsed == Div(current_time - position.last_funding_time, 3600)
      funding_payment ==
        calculate_funding_payment(position.size, m.current_funding_rate,
                                  position.direction, hours_elapsed)
  IN  IF hours_elapsed = 0 THEN position
      ELSE [position EXCEPT !.accumulated_funding = @ + funding_payment,
                            !.last_funding_time = current_time]

\* Faulty variant of add_total: every size goes to the long total.
add_total_long_only(m, direction, size) ==
  [m EXCEPT !.total_long_size = @ + size]

add_total(m, direction, size) ==
  IF direction = "Long"
  THEN [m EXCEPT !.total_long_size = @ + size]
  ELSE [m EXCEPT !.total_short_size = @ + size]

\* (size / collateral) as u32, then .max(1).min(max_leverage): a negative
\* quotient wraps to a value above any max_leverage.
effective_leverage(config, size, collateral) ==
  LET q == Div(size, collateral)
  IN  IF q < 0 THEN config.max_leverage
      ELSE Min(Max(q, 1), config.max_leverage)

\* ------------------------------------------------------------------------
\* Market entry points (market/src/lib.rs)
\* ------------------------------------------------------------------------

\* Faulty variant of open_position: the price is validated after the
\* collateral has been transferred in.
open_position_price_last(w, current_time, trader, collateral, leverage, direction, oracle) ==
  LET size  == calculate_position_size(collateral, leverage)
      liq   == check_vault_liquidity(w, size)
      entry_price == oracle.price
      liquidation_price ==
        calculate_liquidation_price(entry_price, leverage, direction,
                                    w.m.config.maintenance_margin_bps)
      fee == calculate_trading_fee(size, w.m.config.trading_fee_bps)
      net_collateral == collateral - fee
      w1 == Transfer(w, MarketAddr, trader, MarketAddr, collateral)
      position_id == next_position_id(w1.m)
      w2 == [w1 EXCEPT !.m.position_counter = position_id]
      position ==
        [ id |-> position_id, trader |-> trader, collateral |-> net_collateral,
          size |-> size, entry_price |-> entry_price, direction |-> direction,
          leverage |-> leverage, liquidation_price |-> liquidation_price,
          timestamp |-> current_time, last_funding_time |-> current_time,
          accumulated_funding |-> 0 ]
      w3 == [w2 EXCEPT !.m = save_position(w2.m, position)]
      w4 == [w3 EXCEPT !.m = add_total(w3.m, direction, size)]
      w5 == Transfer(w4, MarketAddr, MarketAddr, VaultAddr, fee)
  IN  IF w.m.paused THEN Outcome("Paused", w, 0)
      ELSE IF collateral < w.m.config.min_collateral
      THEN Outcome("InsufficientCollateral", w, 0)
      ELSE IF leverage < 1 \/ leverage > w.m.config.max_leverage
      THEN Outcome("InvalidLeverage", w, 0)
      ELSE IF size > w.m.config.max_position_size
      THEN Outcome("PositionTooLarge", w, 0)
      ELSE IF liq.err # "Ok" THEN liq
      ELSE IF get_oracle_price(w.m.config, oracle, current_time) # "Ok"
      THEN Outcome(get_oracle_price(w.m.config, oracle, current_time), w1, 0)
      ELSE Outcome("Ok", w5, position_id)

\* Faulty variant of open_position: a collateral equal to the minimum is
\* rejected.
open_position_above_minimum(w, current_time, trader, collateral, leverage, direction, oracle) ==
  LET size  == calculate_position_size(collateral, leverage)
      liq   == check_vault_liquidity(w, size)
      entry_price == oracle.price
      liquidation_price ==
        calculate_liquidation_price(entry_price, leverage, direction,
                                    w.m.config.maintenance_margin_bps)
      fee == calculate_trading_fee(size, w.m.config.trading_fee_bps)
      net_collateral == collateral - fee
      w1 == Transfer(w, MarketAddr, trader, MarketAddr, collateral)
      position_id == next_position_id(w1.m)
      w2 == [w1 EXCEPT !.m.position_counter = position_id]
      position ==
        [ id |-> position_id, trader |-> trader, collateral |-> net_collateral,
          size |-> size, entry_price |-> entry_price, direction |-> direction,
          leverage |-> leverage, liquidation_price |-> liquidation_price,
          timestamp |-> current_time, last_funding_time |-> current_time,
          accumulated_funding |-> 0 ]
      w3 == [w2 EXCEPT !.m = save_position(w2.m, position)]
      w4 == [w3 EXCEPT !.m = add_total(w3.m, direction, size)]
      w5 == Transfer(w4, MarketAddr, MarketAddr, VaultAddr, fee)
  IN  IF w.m.paused THEN Outcome("Paused", w, 0)
      ELSE IF collateral <= w.m.config.min_collateral
      THEN Outcome("InsufficientCollateral", w, 0)
      ELSE IF leverage < 1 \/ leverage > w.m.config.max_leverage
      THEN Outcome("InvalidLeverage", w, 0)
      ELSE IF size > w.m.config.max_position_size
      THEN Outcome("PositionTooLarge", w, 0)
      ELSE IF liq.err # "Ok" THEN liq
      ELSE IF get_oracle_price(w.m.config, oracle, current_time) # "Ok"
      THEN Outcome(get_oracle_price(w.m.config, oracle, current_time), w, 0)
      ELSE Outcome("Ok", w5, position_id)

\* Faulty variant of open_position: funding is owed since the epoch, not since
\* the position was opened.
open_position_funding_from_epoch(w, current_time, trader, collateral, leverage, direction, oracle) ==
  LET size  == calculate_position_size(collateral, leverage)
      liq   == check_vault_liquidity(w, size)
      entry_price == oracle.price
      liquidation_price ==
        calculate_liquidation_price(entry_price, leverage, direction,
                                    w.m.config.maintenance_margin_bps)
      fee == calculate_trading_fee(size, w.m.config.trading_fee_bps)
      net_collateral == collateral - fee
      w1 == Transfer(w, MarketAddr, trader, MarketAddr, collateral)
      position_id == next_position_id(w1.m)
      w2 == [w1 EXCEPT !.m.position_counter = position_id]
      position ==
        [ id |-> position_id, trader |-> trader, collateral |-> net_collateral,
          size |-> size, entry_price |-> entry_price, direction |-> direction,
          leverage |-> leverage, liquidation_price |-> liquidation_price,
          timestamp |-> current_time, last_funding_time |-> 0,
          accumulated_funding |-> 0 ]
      w3 == [w2 EXCEPT !.m = save_position(w2.m, position)]
      w4 == [w3 EXCEPT !.m = add_total(w3.m, direction, size)]
      w5 == Transfer(w4, MarketAddr, MarketAddr, VaultAddr, fee)
  IN  IF w.m.paused THEN Outcome("Paused", w, 0)
      ELSE IF collateral < w.m.config.min_collateral
      THEN Outcome("InsufficientCollateral", w, 0)
      ELSE IF leverage < 1 \/ leverage > w.m.config.max_leverage
      THEN Outcome("InvalidLeverage", w, 0)
      ELSE IF size > w.m.config.max_position_size
      THEN Outcome("PositionTooLarge", w, 0)
      ELSE IF liq.err # "Ok" THEN liq
      ELSE IF get_oracle_price(w.m.config, oracle, current_time) # "Ok"
      THEN Outcome(get_oracle_price(w.m.config, oracle, current_time), w, 0)
      ELSE Outcome("Ok", w5, position_id)

open_position(w, current_time, trader, collateral, leverage, direction, oracle) ==
  LET size  == calculate_position_size(collateral, leverage)
      liq   == check_vault_liquidity(w, size)
      entry_price == oracle.price
      liquidation_price ==
        calculate_liquidation_price(entry_price, leverage, direction,
                                    w.m.config.maintenance_margin_bps)
      fee == calculate_trading_fee(size, w.m.config.trading_fee_bps)
      net_collateral == collateral - fee
      w1 == Transfer(w, MarketAddr, trader, MarketAddr, collateral)
      position_id == next_position_id(w1.m)
      w2 == [w1 EXCEPT !.m.position_counter = position_id]
      position ==
        [ id |-> position_id, trader |-> trader, collateral |-> net_collateral,
          size |-> size, entry_price |-> entry_price, direction |-> direction,
          leverage |-> leverage, liquidation_price |-> liquidation_price,
          timestamp |-> current_time, last_funding_time |-> current_time,
          accumulated_funding |-> 0 ]
      w3 == [w2 EXCEPT !.m = save_position(w2.m, position)]
      w4 == [w3 EXCEPT !.m = add_total(w3.m, direction, size)]
      w5 == Transfer(w4, MarketAddr, MarketAddr, VaultAddr, fee)
  IN  IF w.m.paused THEN Outcome("Paused", w, 0)
      ELSE IF collateral < w.m.config.min_collateral
      THEN Outcome("InsufficientCollateral", w, 0)
      ELSE IF leverage < 1 \/ leverage > w.m.config.max_leverage
      THEN Outcome("InvalidLeverage", w, 0)
      ELSE IF size > w.m.config.max_position_size
      THEN Outcome("PositionTooLarge", w, 0)
      ELSE IF liq.err # "Ok" THEN liq
      ELSE IF get_oracle_price(w.m.config, oracle, current_time) # "Ok"
      THEN Outcome(get_oracle_price(w.m.config, oracle, current_time), w, 0)
      ELSE Outcome("Ok", w5, position_id)

close_position(w, current_time, trader, position_id, oracle) ==
  LET stored   == w.m.positions[position_id]
      position == apply_funding_to_position(w.m, stored, current_time)
      current_price == oracle.price
      pnl == calculate_pnl(position, current_price)
      to_trader == position.collateral + pnl - position.accumulated_funding
      settled == settle_with_vault(w, pnl)
      w1 == settled.w
      w2 == IF pnl < 0
            THEN Transfer(w1, MarketAddr, MarketAddr, VaultAddr, -pnl)
            ELSE w1
      w3 == IF position.accumulated_funding > 0
            THEN Transfer(w2, MarketAddr, MarketAddr, VaultAddr,
                          position.accumulated_funding)
            ELSE w2
      w4 == IF to_trader > 0
            THEN Transfer(w3, MarketAddr, MarketAddr, trader, to_trader)
            ELSE w3
      w5 == [w4 EXCEPT !.m = add_total(w4.m, position.direction, -position.size)]
      w6 == [w5 EXCEPT !.m = delete_position(w5.m, position_id, trader)]
  IN  IF w.m.paused THEN Outcome("Paused", w, 0)
      ELSE IF ~has_position(w.m, position_id) THEN Outcome("PositionNotFound", w, 0)
      ELSE IF stored.trader # trader THEN Outcome("NotPositionOwner", w, 0)
      ELSE IF get_oracle_price(w.m.config, oracle, current_time) # "Ok"
      THEN Outcome(get_oracle_price(w.m.config, oracle, current_time), w, 0)
      ELSE IF position.entry_price = 0 THEN Outcome("DivisionByZero", w, 0)
      ELSE IF settled.err # "Ok" THEN settled
      ELSE Outcome("Ok", w6, pnl)

\* Faulty variant of add_collateral: the top-up is transferred before the
\* ownership check.
add_collateral_pays_first(w, trader, position_id, amount) ==
  LET stored == w.m.positions[position_id]
      w1 == Transfer(w, MarketAddr, trader, MarketAddr, amount)
      collateral == stored.collateral + amount
      liquidation_price ==
        calculate_liquidation_price(stored.entry_price,
                                    effective_leverage(w.m.config, stored.size, collateral),
                                    stored.direction, w.m.config.maintenance_margin_bps)
      position == [stored EXCEPT !.collateral = collateral,
                                 !.liquidation_price = liquidation_price]
      w2 == [w1 EXCEPT !.m = save_position(w1.m, position)]
  IN  IF w.m.paused THEN Outcome("Paused", w, 0)
      ELSE IF amount <= 0 THEN Outcome("InvalidAmount", w, 0)
      ELSE IF ~has_position(w.m, position_id) THEN Outcome("PositionNotFound", w, 0)
      ELSE IF stored.trader # trader THEN Outcome("NotPositionOwner", w1, 0)
      ELSE IF collateral = 0 THEN Outcome("Ok", [w1 EXCEPT !.trap = TRUE], 0)
      ELSE Outcome("Ok", w2, 0)

\* Faulty variant of add_collateral: the caller is not compared with the
\* position's owner.
add_collateral_any_caller(w, trader, position_id, amount) ==
  LET stored == w.m.positions[position_id]
      w1 == Transfer(w, MarketAddr, trader, MarketAddr, amount)
      collateral == stored.collateral + amount
      liquidation_price ==
        calculate_liquidation_price(stored.entry_price,
                                    effective_leverage(w.m.config, stored.size, collateral),
                                    stored.direction, w.m.config.maintenance_margin_bps)
      position == [stored EXCEPT !.collateral = collateral,
                                 !.liquidation_price = liquidation_price]
      w2 == [w1 EXCEPT !.m = save_position(w1.m, position)]
  IN  IF w.m.paused THEN Outcome("Paused", w, 0)
      ELSE IF amount <= 0 THEN Outcome("InvalidAmount", w, 0)
      ELSE IF ~has_position(w.m, position_id) THEN Outcome("PositionNotFound", w, 0)
      ELSE IF collateral = 0 THEN Outcome("Ok", [w1 EXCEPT !.trap = TRUE], 0)
      ELSE Outcome("Ok", w2, 0)

add_collateral(w, trader, position_id, amount) ==
  LET stored == w.m.positions[position_id]
      w1 == Transfer(w, MarketAddr, trader, MarketAddr, amount)
      collateral == stored.collateral + amount
      liquidation_price ==
        calculate_liquidation_price(stored.entry_price,
                                    effective_leverage(w.m.config, stored.size, collateral),
                                    stored.direction, w.m.config.maintenance_margin_bps)
      position == [stored EXCEPT !.collateral = collateral,
                                 !.liquidation_price = liquidation_price]
      w2 == [w1 EXCEPT !.m = save_position(w1.m, position)]
  IN  IF w.m.paused THEN Outcome("Paused", w, 0)
      ELSE IF amount <= 0 THEN Outcome("InvalidAmount", w, 0)
      ELSE IF ~has_position(w.m, position_id) THEN Outcome("PositionNotFound", w, 0)
      ELSE IF stored.trader # trader THEN Outcome("NotPositionOwner", w, 0)
      ELSE IF collateral = 0 THEN Outcome("Ok", [w1 EXCEPT !.trap = TRUE], 0)
      ELSE Outcome("Ok", w2, 0)

\* Faulty variant of liquidate: refused while the market is paused.
liquidate_unless_paused(w, current_time, keeper, position_id, oracle) ==
  LET position == w.m.positions[position_id]
      current_price == oracle.price
      pnl == calculate_pnl(position, current_price)
      remaining == position.collateral + pnl - position.accumulated_funding
      keeper_reward ==
        IF remaining > 0
        THEN calculate_keeper_reward(remaining, w.m.config.liquidation_fee_bps)
        ELSE 0
      actual_keeper_reward ==
        IF keeper_reward > position.collateral
        THEN Div(position.collateral, 10)
        ELSE keeper_reward
      vault_receives ==
        IF position.collateral > actual_keeper_reward
        THEN position.collateral - actual_keeper_reward
        ELSE 0
      settled == IF vault_receives > 0
                 THEN settle_with_vault(w, -vault_receives)
                 ELSE Outcome("Ok", w, 0)
      w1 == settled.w
      w2 == IF vault_receives > 0
            THEN Transfer(w1, MarketAddr, MarketAddr, VaultAddr, vault_receives)
            ELSE w1
      w3 == IF actual_keeper_reward > 0
            THEN Transfer(w2, MarketAddr, MarketAddr, keeper, actual_keeper_reward)
            ELSE w2
      w4 == [w3 EXCEPT !.m = add_total(w3.m, position.direction, -position.size)]
      w5 == [w4 EXCEPT !.m = delete_position(w4.m, position_id, position.trader)]
  IN  IF w.m.paused THEN Outcome("Paused", w, 0)
      ELSE IF ~has_position(w.m, position_id) THEN Outcome("PositionNotFound", w, 0)
      ELSE IF get_oracle_price(w.m.config, oracle, current_time) # "Ok"
      THEN Outcome(get_oracle_price(w.m.config, oracle, current_time), w, 0)
      ELSE IF ~should_liquidate(position, current_price)
      THEN Outcome("NotLiquidatable", w, 0)
      ELSE IF position.entry_price = 0 THEN Outcome("DivisionByZero", w, 0)
      ELSE IF settled.err # "Ok" THEN settled
      ELSE Outcome("Ok", w5, actual_keeper_reward)

\* Faulty variant of liquidate: the keeper reward is not capped by the
\* collateral.
liquidate_uncapped(w, current_time, keeper, position_id, oracle) ==
  LET position == w.m.positions[position_id]
      current_price == oracle.price
      pnl == calculate_pnl(position, current_price)
      remaining == position.collateral + pnl - position.accumulated_funding
      keeper_reward ==
        IF remaining > 0
        THEN calculate_keeper_reward(remaining, w.m.config.liquidation_fee_bps)
        ELSE 0
      actual_keeper_reward == keeper_reward
      vault_receives ==
        IF position.collateral > actual_keeper_reward
        THEN position.collateral - actual_keeper_reward
        ELSE 0
      settled == IF vault_receives > 0
                 THEN settle_with_vault(w, -vault_receives)
                 ELSE Outcome("Ok", w, 0)
      w1 == settled.w
      w2 == IF vault_receives > 0
            THEN Transfer(w1, MarketAddr, MarketAddr, VaultAddr, vault_receives)
            ELSE w1
      w3 == IF actual_keeper_reward > 0
            THEN Transfer(w2, MarketAddr, MarketAddr, keeper, actual_keeper_reward)
            ELSE w2
      w4 == [w3 EXCEPT !.m = add_total(w3.m, position.direction, -position.size)]
      w5 == [w4 EXCEPT !.m = delete_position(w4.m, position_id, position.trader)]
  IN  IF ~has_position(w.m, position_id) THEN Outcome("PositionNotFound", w, 0)
      ELSE IF get_oracle_price(w.m.config, oracle, current_time) # "Ok"
      THEN Outcome(get_oracle_price(w.m.config, oracle, current_time), w, 0)
      ELSE IF ~should_liquidate(position, current_price)
      THEN Outcome("NotLiquidatable", w, 0)
      ELSE IF position.entry_price = 0 THEN Outcome("DivisionByZero", w, 0)
      ELSE IF settled.err # "Ok" THEN settled
      ELSE Outcome("Ok", w5, actual_keeper_reward)

liquidate(w, current_time, keeper, position_id, oracle) ==
  LET position == w.m.positions[position_id]
      current_price == oracle.price
      pnl == calculate_pnl(position, current_price)
      remaining == position.collateral + pnl - position.accumulated_funding
      keeper_reward ==
        IF remaining > 0
        THEN calculate_keeper_reward(remaining, w.m.config.liquidation_fee_bps)
        ELSE 0
      actual_keeper_reward ==
        IF keeper_reward > position.collateral
        THEN Div(position.collateral, 10)
        ELSE keeper_reward
      vault_receives ==
        IF position.collateral > actual_keeper_reward
        THEN position.collateral - actual_keeper_reward
        ELSE 0
      settled == IF vault_receives > 0
                 THEN settle_with_vault(w, -vault_receives)
                 ELSE Outcome("Ok", w, 0)
      w1 == settled.w
      w2 == IF vault_receives > 0
            THEN Transfer(w1, MarketAddr, MarketAddr, VaultAddr, vault_receives)
            ELSE w1
      w3 == IF actual_keeper_reward > 0
            THEN Transfer(w2, MarketAddr, MarketAddr, keeper, actual_keeper_reward)
            ELSE w2
      w4 == [w3 EXCEPT !.m = add_total(w3.m, position.direction, -position.size)]
      w5 == [w4 EXCEPT !.m = delete_position(w4.m, position_id, position.trader)]
  IN  IF ~has_position(w.m, position_id) THEN Outcome("PositionNotFound", w, 0)
      ELSE IF get_oracle_price(w.m.config, oracle, current_time) # "Ok"
      THEN Outcome(get_oracle_price(w.m.config, oracle, current_time), w, 0)
      ELSE IF ~should_liquidate(position, current_price)
      THEN Outcome("NotLiquidatable", w, 0)
      ELSE IF position.entry_price = 0 THEN Outcome("DivisionByZero", w, 0)
      ELSE IF settled.err # "Ok" THEN settled
      ELSE Outcome("Ok", w5, actual_keeper_reward)

\* Faulty variant of apply_funding: the interval required is half an hour.
apply_funding_half_interval(w, current_time) ==
  LET last_funding  == w.m.last_funding_time
      hours_elapsed == Div(current_time - last_funding, 3600)
      funding_rate ==
        calculate_funding_rate(w.m.total_long_size, w.m.total_short_size,
                               w.m.config.base_funding_rate_bps)
      w1 == [w EXCEPT !.m.current_funding_rate = funding_rate,
                      !.m.last_funding_time = current_time]
  IN  IF current_time < last_funding + (FUNDING_INTERVAL \div 2)
      THEN Outcome("FundingIntervalNotElapsed", w, 0)
      ELSE IF hours_elapsed = 0 THEN Outcome("Ok", w, 0)
      ELSE Outcome("Ok", w1, 0)

apply_funding(w, current_time) ==
  LET last_funding  == w.m.last_funding_time
      hours_elapsed == Div(current_time - last_funding, 3600)
      funding_rate ==
        calculate_funding_rate(w.m.total_long_size, w.m.total_short_size,
                               w.m.config.base_funding_rate_bps)
      w1 == [w EXCEPT !.m.current_funding_rate = funding_rate,
                      !.m.last_funding_time = current_time]
  IN  IF current_time < last_funding + FUNDING_INTERVAL
      THEN Outcome("FundingIntervalNotElapsed", w, 0)
      ELSE IF hours_elapsed = 0 THEN Outcome("Ok", w, 0)
      ELSE Outcome("Ok", w1, 0)

\* Admin only; the only setting validated is max_leverage.
update_config(w, config) ==
  IF config.max_leverage < 1 \/ config.max_leverage > 100
  THEN Outcome("InvalidParameter", w, 0)
  ELSE Outcome("Ok", [w EXCEPT !.m.config = config], 0)

\* Market::pause and Market::unpause (admin only).
pause(w) == Outcome("Ok", [w EXCEPT !.m.paused = TRUE], 0)

unpause(w) == Outcome("Ok", [w EXCEPT !.m.paused = FALSE], 0)

\* ------------------------------------------------------------------------
\* Actions: one per invocation of an entry point
\* ------------------------------------------------------------------------

Here == World(market, vault, balance)

\* Ages (in seconds) of the price the oracle adapter reports.
OracleAges == {0}

Oracles ==
  {[price |-> p, timestamp |-> now - a] : p \in Prices, a \in {x \in OracleAges : x <= now}}

\* Errors an entry point returns before it calls the oracle adapter.
BeforeOracle == {"Paused", "PositionNotFound", "NotPositionOwner"}

\* The invocation ends with outcome r (already passed through Finish); the
\* record keeps the oracle answer only if the invocation fetched it.
Commit(op, r, caller, id, amount, leverage, oracle) ==
  /\ market' = r.w.m
  /\ vault' = r.w.v
  /\ balance' = r.w.b
  /\ last' = [ op |-> op, err |-> r.err, caller |-> caller, id |-> id,
               amount |-> amount, leverage |-> leverage,
               oracle |-> IF r.err \in BeforeOracle THEN NoOracle ELSE oracle,
               ret |-> r.ret, log |-> r.w.log ]
  /\ UNCHANGED now

PositionIds == 1..MaxPositionId

\* A failed invocation leaves every store as it was, so the invocations that
\* can follow it are exactly those that can follow the state before it; the
\* model records the failure and does not enumerate them a second time.
Running == last.err = "Ok"

OpenPosition ==
  /\ Running
  /\ market.position_counter < MaxPositionId
  /\ \E trader \in Traders, collateral \in Collaterals, leverage \in Leverages,
        direction \in Directions, oracle \in Oracles :
       LET r == Finish(Here, open_position(Here, now, trader, collateral, leverage,
                                           direction, oracle))
       IN  Commit("open_position", r, trader, r.ret, collateral, leverage, oracle)

ClosePosition ==
  /\ Running
  /\ \E trader \in Traders, id \in PositionIds, oracle \in Oracles :
       LET r == Finish(Here, close_position(Here, now, trader, id, oracle))
       IN  Commit("close_position", r, trader, id, 0, 0, oracle)

AddCollateral ==
  /\ Running
  /\ \E trader \in Traders, id \in PositionIds, amount \in TopUps :
       LET r == Finish(Here, add_collateral(Here, trader, id, amount))
       IN  Commit("add_collateral", r, trader, id, amount, 0, NoOracle)

Liquidate ==
  /\ Running
  /\ \E keeper \in Keepers, id \in PositionIds, oracle \in Oracles :
       LET r == Finish(Here, liquidate(Here, now, keeper, id, oracle))
       IN  Commit("liquidate", r, keeper, id, 0, 0, oracle)

ApplyFunding ==
  /\ Running
  /\ LET r == Finish(Here, apply_funding(Here, now))
     IN  Commit("apply_funding", r, "none", 0, 0, 0, NoOracle)

Deposit ==
  /\ Running
  /\ vault.total_glp < MaxGlpSupply
  /\ \E depositor \in Providers, amount \in DepositAmounts :
       LET r == Finish(Here, deposit(Here, depositor, amount))
       IN  Commit("deposit", r, depositor, 0, amount, 0, NoOracle)

Withdraw ==
  /\ Running
  /\ \E withdrawer \in Providers, shares \in WithdrawShares :
       LET r == Finish(Here, withdraw(Here, withdrawer, shares))
       IN  Commit("withdraw", r, withdrawer, 0, shares, 0, NoOracle)

\* The ledger closes: time passes between invocations.
AdvanceTime ==
  /\ Running
  /\ now < MaxTicks * TimeStep
  /\ now' = now + TimeStep
  /\ last' = [NoCall EXCEPT !.op = "advance_time"]
  /\ UNCHANGED <<market, vault, balance>>

Next ==
  \/ OpenPosition
  \/ ClosePosition
  \/ AddCollateral
  \/ Liquidate
  \/ ApplyFunding
  \/ Deposit
  \/ Withdraw
  \/ AdvanceTime

Spec == Init /\ [][Next]_vars

\* ------------------------------------------------------------------------
\* The administrator's entry points and rejected inputs, at a fixed ledger
\* time
\* ------------------------------------------------------------------------

AddCollateralInvalid ==
  /\ Running
  /\ \E trader \in Traders, id \in PositionIds, amount \in InvalidTopUps :
       LET r == Finish(Here, add_collateral(Here, trader, id, amount))
       IN  Commit("add_collateral", r, trader, id, amount, 0, NoOracle)

PauseMarket ==
  /\ Running
  /\ ~market.paused
  /\ Commit("pause", Finish(Here, pause(Here)), Admin, 0, 0, 0, NoOracle)

UnpauseMarket ==
  /\ Running
  /\ market.paused
  /\ Commit("unpause", Finish(Here, unpause(Here)), Admin, 0, 0, 0, NoOracle)

PauseVault ==
  /\ Running
  /\ ~vault.paused
  /\ Commit("vault_pause", Finish(Here, vault_pause(Here)), Admin, 0, 0, 0, NoOracle)

UnpauseVault ==
  /\ Running
  /\ vault.paused
  /\ Commit("vault_unpause", Finish(Here, vault_unpause(Here)), Admin, 0, 0, 0, NoOracle)

EmergencyWithdraw ==
  /\ Running
  /\ \E amount \in EmergencyAmounts :
       LET r == Finish(Here, emergency_withdraw(Here, amount, Admin))
       IN  Commit("emergency_withdraw", r, Admin, 0, amount, 0, NoOracle)

NextAdmin ==
  \/ OpenPosition
  \/ ClosePosition
  \/ AddCollateral
  \/ AddCollateralInvalid
  \/ Liquidate
  \/ Deposit
  \/ Withdraw
  \/ PauseMarket
  \/ UnpauseMarket
  \/ PauseVault
  \/ UnpauseVault
  \/ EmergencyWithdraw

SpecAdmin == Init /\ [][NextAdmin]_vars

\* ------------------------------------------------------------------------
\* Funding applications over several intervals
\* ------------------------------------------------------------------------

Tick ==
  /\ Running
  /\ now < MaxFundingTicks * TimeStep
  /\ now' = now + TimeStep
  /\ last' = [NoCall EXCEPT !.op = "advance_time"]
  /\ UNCHANGED <<market, vault, balance>>

NextFunding ==
  \/ Deposit
  \/ OpenPosition
  \/ ClosePosition
  \/ ApplyFunding
  \/ Tick

SpecFunding == Init /\ [][NextFunding]_vars

\* ------------------------------------------------------------------------
\* The checks of open_position: every kind of input, and configurations the
\* administrator may set
\* ------------------------------------------------------------------------

\* Configurations offered to update_config: the leverage cap at its highest
\* accepted value and one above it, and no collateral floor.
Configs ==
  { [Config EXCEPT !.max_leverage = 100],
    [Config EXCEPT !.max_leverage = 101],
    [Config EXCEPT !.min_collateral = 0] }

\* Inputs of open_position, rejected ones included.
AnyCollaterals == {0, 50, 100, 10000, 60000}

AnyLeverages == {0, 2, 100, 101}

\* Oracle answers: a price that is positive or not, fresh or older than
\* max_price_staleness.
AnyOracles ==
  {[price |-> p, timestamp |-> now - a] :
     p \in {0, 200}, a \in {x \in {0, Config.max_price_staleness + 1} : x <= now}}

\* Amounts the market may ask the vault to cover.
ReserveAmounts == {0, 10000, 20000, 30000}

OpenPositionAny ==
  /\ Running
  /\ market.position_counter < MaxPositionId
  /\ \E trader \in Traders, collateral \in AnyCollaterals, leverage \in AnyLeverages,
        direction \in Directions, oracle \in AnyOracles :
       LET r == Finish(Here, open_position(Here, now, trader, collateral, leverage,
                                           direction, oracle))
       IN  Commit("open_position", r, trader, r.ret, collateral, leverage, oracle)

UpdateConfig ==
  /\ Running
  /\ \E config \in Configs :
       /\ config # market.config
       /\ Commit("update_config", Finish(Here, update_config(Here, config)),
                 Admin, 0, 0, config.max_leverage, NoOracle)

\* The vault's liquidity check, invoked by the market contract.
ReserveForPosition ==
  /\ Running
  /\ \E amount \in ReserveAmounts :
       Commit("reserve_for_position", Finish(Here, reserve_for_position(Here, amount)),
              MarketAddr, 0, amount, 0, NoOracle)

NextOpen ==
  \/ Deposit
  \/ OpenPositionAny
  \/ AddCollateral
  \/ UpdateConfig
  \/ ReserveForPosition
  \/ PauseVault
  \/ EmergencyWithdraw
  \/ AdvanceTime

SpecOpen == Init /\ [][NextOpen]_vars

\* ------------------------------------------------------------------------
\* The pool: deposits and withdrawals of any amount under the fee settings
\* the administrator may choose, next to a small position that can empty it.
\* Every invocation is in a ledger of its own, one second after the last.
\* ------------------------------------------------------------------------

MaxPoolOps == 6

\* Accounts that deposit into the pool.
Depositors == {"lp", "t2"}

\* Inputs of deposit and withdraw, rejected ones included.
AnyDeposits == {0, 100, 10000}

AnyShares == {0, 100, 30000}

\* Inputs of set_deposit_fee and set_withdraw_fee.
FeeSettings == {0, 1001}

\* A Long of size 100 at leverage 1, opened at price 100 and closed at 200,
\* where it wins 100: as much as the smallest deposit.
WinnerCollaterals == {Config.min_collateral}

EntryOracles == {[price |-> 100, timestamp |-> now]}

ExitOracles == {[price |-> 200, timestamp |-> now]}

\* The invocation ends with outcome r and the ledger closes.
CommitLedger(op, r, caller, id, amount, leverage, oracle) ==
  /\ now < MaxPoolOps
  /\ market' = r.w.m
  /\ vault' = r.w.v
  /\ balance' = r.w.b
  /\ last' = [ op |-> op, err |-> r.err, caller |-> caller, id |-> id,
               amount |-> amount, leverage |-> leverage, oracle |-> oracle,
               ret |-> r.ret, log |-> r.w.log ]
  /\ now' = now + 1

DepositAny ==
  /\ Running
  /\ \E depositor \in Depositors, amount \in AnyDeposits :
       LET r == Finish(Here, deposit(Here, depositor, amount))
       IN  CommitLedger("deposit", r, depositor, 0, amount, 0, NoOracle)

WithdrawAny ==
  /\ Running
  /\ \E withdrawer \in Depositors, shares \in AnyShares :
       LET r == Finish(Here, withdraw(Here, withdrawer, shares))
       IN  CommitLedger("withdraw", r, withdrawer, 0, shares, 0, NoOracle)

\* The depositor of the last call withdraws the shares that deposit minted.
WithdrawMinted ==
  /\ Running
  /\ last.op = "deposit"
  /\ LET r == Finish(Here, withdraw(Here, last.caller, last.ret))
     IN  CommitLedger("withdraw", r, last.caller, 0, last.ret, 0, NoOracle)

SetDepositFee ==
  /\ Running
  /\ \E fee_bps \in FeeSettings :
       /\ fee_bps # vault.deposit_fee_bps
       /\ CommitLedger("set_deposit_fee", Finish(Here, set_deposit_fee(Here, fee_bps)),
                       Admin, 0, fee_bps, 0, NoOracle)

SetWithdrawFee ==
  /\ Running
  /\ \E fee_bps \in FeeSettings :
       /\ fee_bps # vault.withdraw_fee_bps
       /\ CommitLedger("set_withdraw_fee", Finish(Here, set_withdraw_fee(Here, fee_bps)),
                       Admin, 0, fee_bps, 0, NoOracle)

OpenWinner ==
  /\ Running
  /\ market.position_counter < MaxPositionId
  /\ \E collateral \in WinnerCollaterals, oracle \in EntryOracles :
       LET r == Finish(Here, open_position(Here, now, "t1", collateral, 1, "Long", oracle))
       IN  CommitLedger("open_position", r, "t1", r.ret, collateral, 1, oracle)

CloseWinner ==
  /\ Running
  /\ \E id \in PositionIds, oracle \in ExitOracles :
       LET r == Finish(Here, close_position(Here, now, "t1", id, oracle))
       IN  CommitLedger("close_position", r, "t1", id, 0, 0,
                        IF r.err \in BeforeOracle THEN NoOracle ELSE oracle)

NextVault ==
  \/ DepositAny
  \/ WithdrawAny
  \/ WithdrawMinted
  \/ SetDepositFee
  \/ SetWithdrawFee
  \/ OpenWinner
  \/ CloseWinner

SpecVault == Init /\ [][NextVault]_vars

\* ------------------------------------------------------------------------
\* The pool's valuation: a small pool, the unrealized PnL the market reports
\* and the AUM and share price the vault answers with
\* ------------------------------------------------------------------------

\* The share price is asked for while AUM x PRECISION fits the integers of
\* the model checker.
MaxPricedAum == 200

\* Inputs of deposit, withdraw and update_unrealized_pnl.
PoolDeposits == {Config.min_collateral}

PoolShares == {50, 100}

UnrealizedPnls == {-50, 50, 300}

DepositPool ==
  /\ Running
  /\ \E depositor \in Depositors, amount \in PoolDeposits :
       LET r == Finish(Here, deposit(Here, depositor, amount))
       IN  CommitLedger("deposit", r, depositor, 0, amount, 0, NoOracle)

WithdrawPool ==
  /\ Running
  /\ \E withdrawer \in Depositors, shares \in PoolShares :
       LET r == Finish(Here, withdraw(Here, withdrawer, shares))
       IN  CommitLedger("withdraw", r, withdrawer, 0, shares, 0, NoOracle)

UpdateUnrealizedPnl ==
  /\ Running
  /\ \E new_pnl \in UnrealizedPnls :
       /\ new_pnl # vault.unrealized_pnl
       /\ CommitLedger("update_unrealized_pnl",
                       Finish(Here, update_unrealized_pnl(Here, new_pnl)),
                       MarketAddr, 0, new_pnl, 0, NoOracle)

GetAum ==
  /\ Running
  /\ CommitLedger("get_aum", Finish(Here, get_aum(Here)), "none", 0, 0, 0, NoOracle)

GetGlpPrice ==
  /\ Running
  /\ calculate_aum_internal(vault) <= MaxPricedAum
  /\ CommitLedger("get_glp_price", Finish(Here, get_glp_price(Here)),
                  "none", 0, 0, 0, NoOracle)

NextPool ==
  \/ DepositPool
  \/ WithdrawPool
  \/ UpdateUnrealizedPnl
  \/ GetAum
  \/ GetGlpPrice
  \/ OpenWinner
  \/ CloseWinner

SpecPool == Init /\ [][NextPool]_vars

\* ------------------------------------------------------------------------
\* The arithmetic of noether_common::math and market::funding, applied to
\* inputs of every kind, next to the positions open_position creates
\* ------------------------------------------------------------------------

\* Long and short totals, and base rates in basis points.
RateInputs ==
  [ total_long_size  : {0, 1000, 2000, 20000},
    total_short_size : {0, 1000, 2000, 20000},
    base_rate_bps    : {0, 10, 100} ]

PaymentInputs ==
  [ position_size : {0, 999, 20000},
    funding_rate  : {-10, -5, 0, 5, 10},
    direction     : Directions,
    hours_elapsed : {0, 1, 3} ]

\* Prices are in units of 10^-7; an entry price of 0 is what calculate_pnl
\* refuses.
PnlInputs ==
  [ size          : {0, 1000, 20000},
    entry_price   : {0, 100, 102, 200},
    direction     : Directions,
    current_price : {0, 90, 100, 110, 200, 333} ]

LiquidationPriceInputs ==
  [ entry_price            : (1..30) \cup {100, 200, 2000},
    leverage               : {Config.max_leverage},
    direction              : Directions,
    maintenance_margin_bps : {Config.maintenance_margin_bps} ]

\* A call of function fn that has not been evaluated yet.
MathCall(fn, args) ==
  [ op |-> "input", fn |-> fn, args |-> args, err |-> "none", ret |-> 0 ]

InitMath ==
  /\ market = MarketInit
  /\ vault = VaultInit
  /\ balance = InitialBalance
  /\ now = 0
  /\ last \in {NoCall}
        \cup {MathCall("calculate_funding_rate", a) : a \in RateInputs}
        \cup {MathCall("calculate_funding_payment", a) : a \in PaymentInputs}
        \cup {MathCall("calculate_pnl", a) : a \in PnlInputs}
        \cup {MathCall("calculate_liquidation_price", a) : a \in LiquidationPriceInputs}

\* The pending call is evaluated; ret is its value.
Evaluated(fn, value) ==
  /\ last.op = "input"
  /\ last.fn = fn
  /\ last' = [last EXCEPT !.op = fn, !.ret = value]
  /\ UNCHANGED <<market, vault, balance, now>>

CalculateFundingRate ==
  /\ last.op = "input"
  /\ last.fn = "calculate_funding_rate"
  /\ Evaluated("calculate_funding_rate",
               calculate_funding_rate(last.args.total_long_size,
                                      last.args.total_short_size,
                                      last.args.base_rate_bps))

\* Both implementations, math.rs and funding.rs, on the same input.
CalculateFundingPayment ==
  /\ last.op = "input"
  /\ last.fn = "calculate_funding_payment"
  /\ Evaluated("calculate_funding_payment",
               [ math    |-> calculate_funding_payment(
                               last.args.position_size, last.args.funding_rate,
                               last.args.direction, last.args.hours_elapsed),
                 funding |-> calculate_funding_payment_internal(
                               last.args.position_size, last.args.funding_rate,
                               last.args.direction, last.args.hours_elapsed) ])

CalculatePnl ==
  /\ last.op = "input"
  /\ last.fn = "calculate_pnl"
  /\ Evaluated("calculate_pnl", calculate_pnl_result(last.args, last.args.current_price))

CalculateLiquidationPrice ==
  /\ last.op = "input"
  /\ last.fn = "calculate_liquidation_price"
  /\ Evaluated("calculate_liquidation_price",
               calculate_liquidation_price(last.args.entry_price, last.args.leverage,
                                           last.args.direction,
                                           last.args.maintenance_margin_bps))

NextMath ==
  \/ CalculateFundingRate
  \/ CalculateFundingPayment
  \/ CalculatePnl
  \/ CalculateLiquidationPrice
  \/ Deposit
  \/ OpenPositionAny
  \/ ClosePosition
  \/ Liquidate

SpecMath == InitMath /\ [][NextMath]_vars

\* ------------------------------------------------------------------------
\* Oracle answers of every kind, to every entry point that asks for a price
\* ------------------------------------------------------------------------

\* A price that is positive or not, fresh or older than max_price_staleness;
\* at 102 a Long opened at 200 with leverage 2 is liquidatable.
PriceOracles ==
  {[price |-> p, timestamp |-> now - a] :
     p \in {0, 102, 200}, a \in {x \in {0, Config.max_price_staleness + 1} : x <= now}}

ClosePositionAny ==
  /\ Running
  /\ \E trader \in Traders, id \in PositionIds, oracle \in PriceOracles :
       LET r == Finish(Here, close_position(Here, now, trader, id, oracle))
       IN  Commit("close_position", r, trader, id, 0, 0, oracle)

LiquidateAny ==
  /\ Running
  /\ \E keeper \in Keepers, id \in PositionIds, oracle \in PriceOracles :
       LET r == Finish(Here, liquidate(Here, now, keeper, id, oracle))
       IN  Commit("liquidate", r, keeper, id, 0, 0, oracle)

NextPrice ==
  \/ Deposit
  \/ OpenPositionAny
  \/ ClosePositionAny
  \/ LiquidateAny
  \/ AdvanceTime

SpecPrice == Init /\ [][NextPrice]_vars

\* ------------------------------------------------------------------------
\* Liquidations under the liquidation fees the administrator may set
\* ------------------------------------------------------------------------

\* update_config validates only max_leverage: a fee of 100% and one of 200%,
\* the latter with a leverage cap at which the liquidation price is the entry
\* price.
KeeperConfigs ==
  { [Config EXCEPT !.liquidation_fee_bps = 10000],
    [Config EXCEPT !.liquidation_fee_bps = 20000, !.max_leverage = 100] }

KeeperCollaterals == {100, 10000}

KeeperLeverages == {2, 100}

OpenPositionKeeper ==
  /\ Running
  /\ market.position_counter < MaxPositionId
  /\ \E trader \in Traders, collateral \in KeeperCollaterals,
        leverage \in KeeperLeverages, direction \in Directions, oracle \in Oracles :
       LET r == Finish(Here, open_position(Here, now, trader, collateral, leverage,
                                           direction, oracle))
       IN  Commit("open_position", r, trader, r.ret, collateral, leverage, oracle)

UpdateKeeperConfig ==
  /\ Running
  /\ \E config \in KeeperConfigs :
       /\ config # market.config
       /\ Commit("update_config", Finish(Here, update_config(Here, config)),
                 Admin, 0, 0, config.max_leverage, NoOracle)

NextKeeper ==
  \/ Deposit
  \/ OpenPositionKeeper
  \/ UpdateKeeperConfig
  \/ Liquidate

SpecKeeper == Init /\ [][NextKeeper]_vars

\* ------------------------------------------------------------------------
\* Top-ups of positions under the configurations initialize accepts
\* ------------------------------------------------------------------------

\* The validation of Market::initialize: only max_leverage is looked at.
initialize_accepts(config) == ~(config.max_leverage < 1 \/ config.max_leverage > 100)

\* Configurations offered to initialize: the usual one, the highest leverage
\* cap, one above it, and a trading fee of 2%.
InitialConfigs ==
  { Config,
    [Config EXCEPT !.max_leverage = 100],
    [Config EXCEPT !.max_leverage = 101],
    [Config EXCEPT !.trading_fee_bps = 200] }

TopUpCollaterals == {200, 1000}

TopUpLeverages == {2, 7, 50}

TopUpAmounts == {1, 10000}

MaxTopUps == 3

InitTopUp ==
  /\ \E config \in InitialConfigs :
       /\ initialize_accepts(config)
       /\ market = [MarketInit EXCEPT !.config = config]
  /\ vault = VaultInit
  /\ balance = InitialBalance
  /\ now = 0
  /\ last = NoCall

OpenPositionTopUp ==
  /\ Running
  /\ market.position_counter < MaxPositionId
  /\ \E trader \in Traders, collateral \in TopUpCollaterals,
        leverage \in TopUpLeverages, direction \in Directions, oracle \in Oracles :
       LET r == Finish(Here, open_position(Here, now, trader, collateral, leverage,
                                           direction, oracle))
       IN  Commit("open_position", r, trader, r.ret, collateral, leverage, oracle)

\* Each top-up is in a ledger of its own, one second after the last.
AddCollateralTopUp ==
  /\ Running
  /\ now < MaxTopUps
  /\ \E trader \in Traders, id \in PositionIds, amount \in TopUpAmounts :
       LET r == Finish(Here, add_collateral(Here, trader, id, amount))
       IN  /\ market' = r.w.m
           /\ vault' = r.w.v
           /\ balance' = r.w.b
           /\ now' = now + 1
           /\ last' = [ op |-> "add_collateral", err |-> r.err, caller |-> trader,
                        id |-> id, amount |-> amount, leverage |-> 0,
                        oracle |-> NoOracle, ret |-> r.ret, log |-> r.w.log ]

NextTopUp ==
  \/ Deposit
  \/ OpenPositionTopUp
  \/ AddCollateralTopUp

SpecTopUp == InitTopUp /\ [][NextTopUp]_vars

\* ------------------------------------------------------------------------
\* The share ledger (vault/src/glp.rs): its three operations applied to
\* amounts that are not negative, next to the deposits and withdrawals that
\* drive them.  Every invocation is in a ledger of its own.
\* ------------------------------------------------------------------------

GlpAmounts == {0, 100, 250}

GlpMint ==
  /\ Running
  /\ \E to \in Depositors, amount \in GlpAmounts :
       LET r == Outcome("Ok", [Here EXCEPT !.v = mint(vault, to, amount)], 0)
       IN  CommitLedger("glp_mint", Finish(Here, r), to, 0, amount, 0, NoOracle)

GlpBurn ==
  /\ Running
  /\ \E from \in Depositors, amount \in GlpAmounts :
       LET r == assert_glp_balance(Here, from, amount, burn(vault, from, amount))
       IN  CommitLedger("glp_burn", Finish(Here, r), from, 0, amount, 0, NoOracle)

\* The record keeps the recipient in the place of the returned value.
GlpTransfer ==
  /\ Running
  /\ \E from \in Depositors, to \in Depositors, amount \in GlpAmounts :
       LET r == assert_glp_balance(Here, from, amount, transfer(vault, from, to, amount))
       IN  CommitLedger("glp_transfer", [Finish(Here, r) EXCEPT !.ret = to],
                        from, 0, amount, 0, NoOracle)

NextGlp ==
  \/ DepositAny
  \/ WithdrawAny
  \/ WithdrawMinted
  \/ GlpMint
  \/ GlpBurn
  \/ GlpTransfer

SpecGlp == Init /\ [][NextGlp]_vars

\* ------------------------------------------------------------------------
\* Properties
\* ------------------------------------------------------------------------

Range(seq) == {seq[i] : i \in 1..Len(seq)}

NoDuplicates(seq) == \A i, j \in 1..Len(seq) : i # j => seq[i] # seq[j]

RECURSIVE SumOfSizes(_, _, _)
SumOfSizes(positions, ids, direction) ==
  IF ids = {} THEN 0
  ELSE LET i == CHOOSE x \in ids : TRUE
       IN  (IF positions[i].direction = direction THEN positions[i].size ELSE 0)
           + SumOfSizes(positions, ids \ {i}, direction)

\* Tokens the transfers of a log moved from one account to another.
RECURSIVE Moved(_, _, _)
Moved(log, from, to) ==
  IF log = <<>> THEN 0
  ELSE (IF Head(log).from = from /\ Head(log).to = to THEN Head(log).amount ELSE 0)
       + Moved(Tail(log), from, to)

\* The transfers of a log that the vault contract executed.
ByVault(log) == SelectSeq(log, LAMBDA e : e.by = VaultAddr)

\* The step leaves every store and every token balance as it was.
NothingChanged == market' = market /\ vault' = vault /\ balance' = balance

\* C1: in every reachable state the stored total long size is the sum of
\* `size` over the live Long positions and the stored total short size is the
\* sum of `size` over the live Short positions.
C1_TotalsMatchLivePositions ==
  /\ market.total_long_size
       = SumOfSizes(market.positions, DOMAIN market.positions, "Long")
  /\ market.total_short_size
       = SumOfSizes(market.positions, DOMAIN market.positions, "Short")

\* A liquidation has removed one of two positions and the other is still live.
C1_Witness ==
  /\ last.op = "liquidate"
  /\ last.err = "Ok"
  /\ market.position_counter = 2
  /\ Cardinality(DOMAIN market.positions) = 1
  /\ market.total_long_size + market.total_short_size > 0

\* C2: in every reachable state an id is in the global index iff a position
\* with that id is stored; it is in trader T's list iff the stored position
\* with that id is owned by T; no id occurs twice in a list; and the reported
\* position count is the number of stored positions.
C2_IndexesMatchLedger ==
  /\ \A id \in PositionIds \cup Range(market.all_positions) :
       Contains(market.all_positions, id) <=> id \in DOMAIN market.positions
  /\ \A t \in Traders :
       \A id \in PositionIds \cup Range(market.trader_positions[t]) :
         Contains(market.trader_positions[t], id)
           <=> (id \in DOMAIN market.positions /\ market.positions[id].trader = t)
  /\ NoDuplicates(market.all_positions)
  /\ \A t \in Traders : NoDuplicates(market.trader_positions[t])
  /\ get_position_count(market) = Cardinality(DOMAIN market.positions)
  /\ DOMAIN market.positions \subseteq PositionIds

\* An existing position has been saved again (add_collateral) after another
\* position was deleted.
C2_Witness ==
  /\ last.op = "add_collateral"
  /\ last.err = "Ok"
  /\ market.position_counter = 2
  /\ Len(market.all_positions) = 1

\* An id that was allocated and whose position is no longer stored.
Retired(id) == id \in 1..market.position_counter /\ id \notin DOMAIN market.positions

PositionOps == {"close_position", "add_collateral", "liquidate"}

\* The life of a position in one step: ids are allocated strictly increasing,
\* a position becomes live only under a fresh id, it leaves the ledger only by
\* a successful close_position or liquidate on its id, and a retired id stays
\* retired.
Lifecycle ==
  /\ market'.position_counter >= market.position_counter
  /\ \A id \in (DOMAIN market'.positions) \ (DOMAIN market.positions) :
       /\ id > market.position_counter
       /\ id = market'.position_counter
  /\ \A id \in (DOMAIN market.positions) \ (DOMAIN market'.positions) :
       /\ last'.op \in {"close_position", "liquidate"}
       /\ last'.err = "Ok"
       /\ last'.id = id
  /\ \A id \in PositionIds :
       Retired(id) =>
         (id \in 1..market'.position_counter /\ id \notin DOMAIN market'.positions)

\* C3 as stated: the lifecycle above, and every close_position, add_collateral
\* or liquidate on a retired id fails with PositionNotFound.
C3_RetiredIdNotFound ==
  [][ /\ Lifecycle
      /\ (last'.op \in PositionOps /\ Retired(last'.id))
           => last'.err = "PositionNotFound" ]_vars

\* C3: the lifecycle above, and every close_position, add_collateral or
\* liquidate on a retired id fails and changes nothing; the error is
\* PositionNotFound, except that close_position and add_collateral fail with
\* Paused while the market is paused and add_collateral otherwise fails with
\* InvalidAmount for an amount <= 0, both being checked before the lookup.
C3_RetiredIdRejected ==
  [][ /\ Lifecycle
      /\ (last'.op \in PositionOps /\ Retired(last'.id))
           => /\ NothingChanged
              /\ last'.err =
                   IF last'.op # "liquidate" /\ market.paused THEN "Paused"
                   ELSE IF last'.op = "add_collateral" /\ last'.amount <= 0
                   THEN "InvalidAmount"
                   ELSE "PositionNotFound" ]_vars

\* close_position on a retired id while the market is paused.
C3_Witness ==
  /\ last.op = "close_position"
  /\ Retired(last.id)
  /\ market.paused
  /\ last.err = "Paused"

\* C4: every call of an entry point that returns an error leaves all stored
\* state (positions, indices, totals, id counter, funding rate and time, pool
\* totals, share balances) and all token balances as they were before it.
C4_ErrorsChangeNothing ==
  [][ last'.err # "Ok" => NothingChanged ]_vars

\* close_position fails after the vault rejected the settlement of a win.
C4_Witness ==
  /\ last.op = "close_position"
  /\ last.err = "InsufficientLiquidity"
  /\ last.id \in DOMAIN market.positions

\* The step is a close_position that passes the pause, lookup and ownership
\* checks, so that it fetches the price and settles with the vault.
ClosesOwnPosition ==
  /\ last'.op = "close_position"
  /\ ~market.paused
  /\ last'.id \in DOMAIN market.positions
  /\ market.positions[last'.id].trader = last'.caller

\* The step is a liquidate of a stored position.
LiquidatesStoredPosition ==
  /\ last'.op = "liquidate"
  /\ last'.id \in DOMAIN market.positions

\* The price the step's invocation fetched.
FetchedPrice == last'.oracle.price

\* C5: settle_pnl(pnl) with pnl > 0 fails with InsufficientLiquidity whenever
\* pnl exceeds the pool's recorded total_usdc or its live token balance, and
\* then nothing is transferred and nothing changes; when it succeeds the pool
\* pays exactly pnl, which it holds: never more, never a part.
C5_WinNeverOverdrawsPool ==
  [][ ClosesOwnPosition =>
        LET pnl == calculate_pnl(market.positions[last'.id], FetchedPrice)
        IN  pnl > 0 =>
              IF pnl > vault.total_usdc \/ pnl > balance[VaultAddr]
              THEN /\ last'.err = "InsufficientLiquidity"
                   /\ last'.log = <<>>
                   /\ NothingChanged
              ELSE last'.err = "Ok" =>
                     /\ ByVault(last'.log)
                          = << [by |-> VaultAddr, from |-> VaultAddr,
                                to |-> MarketAddr, amount |-> pnl] >>
                     /\ vault'.total_usdc = vault.total_usdc - pnl ]_vars

\* A win that the recorded total covers and the live balance does not is
\* rejected.
C5_Witness ==
  /\ last.op = "close_position"
  /\ last.err = "InsufficientLiquidity"
  /\ last.id \in DOMAIN market.positions
  /\ LET pnl == calculate_pnl(market.positions[last.id], last.oracle.price)
     IN  pnl <= vault.total_usdc /\ pnl > balance[VaultAddr]

\* C6: settlement is push-only and asymmetric.  A successful settlement of
\* pnl > 0 takes exactly pnl off total_usdc and the vault transfers exactly pnl
\* to the market; of pnl < 0 it adds exactly -pnl to total_usdc, the vault
\* moves no tokens and the market pushes the loss; of pnl = 0 it changes
\* nothing.  A liquidation settles a loss: the vault moves no tokens.  No
\* transfer the vault executes takes tokens out of the market's balance.
C6_SettlementIsPushOnly ==
  [][ /\ \A i \in 1..Len(last'.log) :
           last'.log[i].by = VaultAddr => last'.log[i].from # MarketAddr
      /\ (ClosesOwnPosition /\ last'.err = "Ok") =>
           LET pnl == calculate_pnl(market.positions[last'.id], FetchedPrice)
           IN  /\ vault'.total_usdc = vault.total_usdc - pnl
               /\ pnl > 0 =>
                    ByVault(last'.log)
                      = << [by |-> VaultAddr, from |-> VaultAddr,
                            to |-> MarketAddr, amount |-> pnl] >>
               /\ pnl < 0 =>
                    /\ ByVault(last'.log) = <<>>
                    /\ \E i \in 1..Len(last'.log) :
                         last'.log[i] = [by |-> MarketAddr, from |-> MarketAddr,
                                         to |-> VaultAddr, amount |-> -pnl]
               /\ pnl = 0 => ByVault(last'.log) = <<>>
      /\ (LiquidatesStoredPosition /\ last'.err = "Ok") =>
           /\ ByVault(last'.log) = <<>>
           /\ vault'.total_usdc >= vault.total_usdc ]_vars

\* A win has been settled: the vault pushed the profit to the market.
C6_Witness ==
  /\ last.op = "close_position"
  /\ last.err = "Ok"
  /\ last.ret > 0
  /\ Len(ByVault(last.log)) = 1

\* C7: in every successful liquidate the increase of the pool's recorded
\* total_usdc equals the number of tokens the market transfers to the vault in
\* that call.
C7_LiquidationAccountingMatchesTokens ==
  [][ (LiquidatesStoredPosition /\ last'.err = "Ok") =>
        /\ vault'.total_usdc - vault.total_usdc
             = Moved(last'.log, MarketAddr, VaultAddr)
        /\ balance'[VaultAddr] - balance[VaultAddr]
             = Moved(last'.log, MarketAddr, VaultAddr) ]_vars

\* A liquidation with equity left: the keeper is paid and the vault receives
\* the rest.
C7_Witness ==
  /\ last.op = "liquidate"
  /\ last.err = "Ok"
  /\ last.ret > 0
  /\ Moved(last.log, MarketAddr, VaultAddr) > 0

\* C8: a successful liquidate of a position whose remaining equity
\* collateral + pnl - accumulated_funding is <= 0 (bad debt) pays the keeper
\* nothing and the pool nothing: no tokens move to the keeper or to the vault,
\* the vault's accounting is unchanged, and no negative amount is transferred.
C8_BadDebtPaysNobody ==
  [][ (LiquidatesStoredPosition /\ last'.err = "Ok") =>
        LET position  == market.positions[last'.id]
            remaining == position.collateral
                         + calculate_pnl(position, FetchedPrice)
                         - position.accumulated_funding
        IN  remaining <= 0 =>
              /\ last'.ret = 0
              /\ Moved(last'.log, MarketAddr, last'.caller) = 0
              /\ Moved(last'.log, MarketAddr, VaultAddr) = 0
              /\ vault' = vault
              /\ \A i \in 1..Len(last'.log) : last'.log[i].amount >= 0 ]_vars

\* C9: a successful close_position by the owner at price x returns
\* pnl(position, x); the owner receives max(0, collateral + pnl -
\* accumulated_funding), the funding accrued in the call included; the vault
\* receives -pnl when pnl < 0 and accumulated_funding when it is > 0; the
\* position is deleted and its size taken off its side's total.
C9_CloseSettlesPosition ==
  [][ (ClosesOwnPosition /\ last'.err = "Ok") =>
        LET position == market.positions[last'.id]
            owner    == position.trader
            hours    == (now - position.last_funding_time) \div 3600
            funding  == position.accumulated_funding
                        + (IF position.direction = "Long" THEN 1 ELSE -1)
                          * Div(position.size * market.current_funding_rate * hours,
                                BASIS_POINTS)
            pnl      == calculate_pnl(position, FetchedPrice)
            payout   == Max(0, position.collateral + pnl - funding)
        IN  /\ last'.ret = pnl
            /\ Moved(last'.log, MarketAddr, owner) = payout
            /\ balance'[owner] = balance[owner] + payout
            /\ Moved(last'.log, MarketAddr, VaultAddr)
                 = (IF pnl < 0 THEN -pnl ELSE 0) + (IF funding > 0 THEN funding ELSE 0)
            /\ last'.id \notin DOMAIN market'.positions
            /\ market'.total_long_size
                 = market.total_long_size
                   - (IF position.direction = "Long" THEN position.size ELSE 0)
            /\ market'.total_short_size
                 = market.total_short_size
                   - (IF position.direction = "Short" THEN position.size ELSE 0) ]_vars

\* A losing position that owes funding is closed: the loss and the funding go
\* to the vault and the rest to the owner.
C9_Witness ==
  /\ last.op = "close_position"
  /\ last.err = "Ok"
  /\ last.ret < 0
  /\ Len(last.log) = 3
  /\ Moved(last.log, MarketAddr, last.caller) > 0

\* The position is liquidatable at the price: at or below the liquidation
\* price for a Long, at or above it for a Short.
Liquidatable(position, price) ==
  \/ position.direction = "Long" /\ price <= position.liquidation_price
  \/ position.direction = "Short" /\ price >= position.liquidation_price

\* C10: liquidate succeeds only on a stored position that is liquidatable at
\* the fetched price; on a stored position that is not, it fails with
\* NotLiquidatable and nothing changes.  It checks no ownership: whoever the
\* keeper is, a liquidatable position whose collateral the market holds is
\* liquidated.
C10_LiquidateOnlyLiquidatable ==
  [][ /\ (last'.op = "liquidate" /\ last'.err = "Ok") =>
           /\ last'.id \in DOMAIN market.positions
           /\ Liquidatable(market.positions[last'.id], FetchedPrice)
      /\ LiquidatesStoredPosition =>
           LET position == market.positions[last'.id]
           IN  /\ ~Liquidatable(position, FetchedPrice) =>
                    (last'.err = "NotLiquidatable" /\ NothingChanged)
               /\ (/\ Liquidatable(position, FetchedPrice)
                   /\ balance[MarketAddr] >= position.collateral) =>
                    last'.err = "Ok"
      /\ last'.op = "liquidate" => last'.err # "NotPositionOwner" ]_vars

\* A keeper that owns no position is refused a position that is not
\* liquidatable at the fetched price.
C10_Witness ==
  /\ last.op = "liquidate"
  /\ last.err = "NotLiquidatable"
  /\ last.caller = "k1"
  /\ last.id \in DOMAIN market.positions
  /\ ~Liquidatable(market.positions[last.id], last.oracle.price)

\* The funding a position owes at the present time: what is stored, plus the
\* payment for the whole hours since the position's last funding time at the
\* stored rate.
FundingDue(position) ==
  position.accumulated_funding
  + (IF position.direction = "Long" THEN 1 ELSE -1)
    * Div(position.size * market.current_funding_rate
            * ((now - position.last_funding_time) \div 3600),
          BASIS_POINTS)

\* C11: liquidate computes the remaining equity, and hence the keeper reward
\* and the pool share, from an accumulated_funding that includes the funding
\* for the whole hours elapsed since the position's last funding time at the
\* stored rate, as close_position does.
C11_LiquidateAccruesFunding ==
  [][ (LiquidatesStoredPosition /\ last'.err = "Ok") =>
        LET position  == market.positions[last'.id]
            remaining == position.collateral
                         + calculate_pnl(position, FetchedPrice)
                         - FundingDue(position)
            reward    == IF remaining > 0
                         THEN Div(remaining * market.config.liquidation_fee_bps, BASIS_POINTS)
                         ELSE 0
        IN  /\ last'.ret = reward
            /\ Moved(last'.log, MarketAddr, VaultAddr)
                 = position.collateral - reward ]_vars

\* The funding a close_position step charged: what the market sent to the
\* vault beyond the loss (the funding owed, when positive).
FundingPushed(log, pnl) ==
  Moved(log, MarketAddr, VaultAddr) - (IF pnl < 0 THEN -pnl ELSE 0)

\* C12: the funding close_position accrues is that of
\* h = floor((now - position.last_funding_time) / 3600) hours at the stored
\* rate, which is 0 until an apply_funding succeeds and changes only when one
\* does; it is not the rate the present totals imply; nothing accrues when
\* h = 0; and apply_funding touches no position and no balance, so a new rate
\* is never applied to a position already closed.
C12_CloseAccruesAtStoredRate ==
  [][ /\ (ClosesOwnPosition /\ last'.err = "Ok") =>
           LET position == market.positions[last'.id]
               h        == (now - position.last_funding_time) \div 3600
               rate     == market.current_funding_rate
               due      == position.accumulated_funding
                           + (IF h = 0 THEN 0
                              ELSE IF position.direction = "Long"
                              THEN Div(position.size * rate * h, BASIS_POINTS)
                              ELSE -Div(position.size * rate * h, BASIS_POINTS))
               pnl      == last'.ret
           IN  /\ FundingPushed(last'.log, pnl) = Max(due, 0)
               /\ Moved(last'.log, MarketAddr, last'.caller)
                    = Max(0, position.collateral + pnl - due)
               /\ h = 0 => due = position.accumulated_funding
      /\ market'.current_funding_rate # market.current_funding_rate =>
           (last'.op = "apply_funding" /\ last'.err = "Ok")
      /\ last'.op = "apply_funding" =>
           /\ balance' = balance
           /\ vault' = vault
           /\ market'.positions = market.positions
      /\ (market.last_funding_time = 0 /\ last'.op # "apply_funding") =>
           market'.current_funding_rate = 0 ]_vars

\* A Long is closed one hour after it was opened and is charged funding at the
\* stored positive rate, while the totals at the time of the close (a Short
\* of the same size was open) implied a rate of zero.
C12_Witness ==
  /\ last.op = "close_position"
  /\ last.err = "Ok"
  /\ FundingPushed(last.log, last.ret) > 0
  /\ market.current_funding_rate > 0
  /\ market.total_long_size = 0
  /\ market.total_short_size = 20000

\* C13: apply_funding at time t < last_funding_time + 3600 fails with
\* FundingIntervalNotElapsed and changes nothing; every other call succeeds,
\* stores the rate computed from the present long/short totals and sets
\* last_funding_time = t (success is never a no-op); last_funding_time
\* changes in no other way, so two successes are at least 3600 seconds apart.
C13_FundingIsRateLimited ==
  [][ /\ last'.op = "apply_funding" =>
           IF now < market.last_funding_time + 3600
           THEN last'.err = "FundingIntervalNotElapsed" /\ NothingChanged
           ELSE /\ last'.err = "Ok"
                /\ market'.current_funding_rate
                     = calculate_funding_rate(market.total_long_size,
                                              market.total_short_size,
                                              market.config.base_funding_rate_bps)
                /\ market'.last_funding_time = now
                /\ now - market.last_funding_time >= 3600
      /\ market'.last_funding_time # market.last_funding_time =>
           (last'.op = "apply_funding" /\ last'.err = "Ok") ]_vars

\* After a successful application, one that comes less than an hour later is
\* refused.
C13_Witness ==
  /\ last.op = "apply_funding"
  /\ last.err = "FundingIntervalNotElapsed"
  /\ market.last_funding_time >= 3600
  /\ now > market.last_funding_time

\* The step is a successful open_position; its result is the new id.
OpensPosition == last'.op = "open_position" /\ last'.err = "Ok"

C15_LiquidationPriceOnLosingSide ==
  \A id \in DOMAIN market.positions :
    LET position == market.positions[id]
    IN  IF position.direction = "Long"
        THEN position.liquidation_price < position.entry_price
        ELSE position.liquidation_price > position.entry_price

\* What the checks of open_position answer for the inputs of the step, taken
\* in the order collateral floor, leverage, size ceiling, pool liquidity,
\* price; "Ok" when every check passes.
FirstFailedCheck ==
  LET config     == market.config
      collateral == last'.amount
      leverage   == last'.leverage
      size       == collateral * leverage
      oracle     == last'.oracle
  IN  IF collateral < config.min_collateral THEN "InsufficientCollateral"
      ELSE IF leverage < 1 \/ leverage > config.max_leverage THEN "InvalidLeverage"
      ELSE IF size > config.max_position_size THEN "PositionTooLarge"
      ELSE IF size <= 0 THEN "InvalidAmount"
      ELSE IF size > vault.total_usdc \/ size > balance[VaultAddr]
      THEN "InsufficientLiquidity"
      ELSE IF now > oracle.timestamp /\ now - oracle.timestamp > config.max_price_staleness
      THEN "PriceStale"
      ELSE IF oracle.price <= 0 THEN "InvalidPrice"
      ELSE "Ok"

\* C16: open_position (market not paused) makes its checks in the order
\* collateral floor, leverage, size ceiling, pool liquidity, price staleness
\* and positivity, and answers with the error of the first that fails; a call
\* that fails has moved no token and written no state; and once the collateral
\* has been transferred in the call returns no error.
C16_ChecksPrecedeTransfer ==
  [][ last'.op = "open_position" /\ ~market.paused =>
        /\ FirstFailedCheck # "Ok" => last'.err = FirstFailedCheck
        /\ FirstFailedCheck = "Ok" => last'.err \in {"Ok", "HostError"}
        /\ last'.err # "Ok" => NothingChanged /\ last'.log = <<>>
        /\ last'.err = "Ok" =>
             /\ Len(last'.log) >= 1
             /\ last'.log[1] = [ by |-> MarketAddr, from |-> last'.caller,
                                 to |-> MarketAddr, amount |-> last'.amount ] ]_vars

\* A call whose leverage, size and price would all be rejected fails on the
\* leverage.
C16_Witness ==
  /\ last.op = "open_position"
  /\ last.err = "InvalidLeverage"
  /\ last.amount * last.leverage > market.config.max_position_size
  /\ last.amount * last.leverage > vault.total_usdc
  /\ last.oracle.price <= 0

\* The step is a call of reserve_for_position; its amount is last'.amount.
ReservesForPosition == last'.op = "reserve_for_position"

\* The amount of the step exceeds the pool's recorded total or the vault's
\* live token balance.
ExceedsPool == last'.amount > vault.total_usdc \/ last'.amount > balance[VaultAddr]

\* C17 as stated: reserve_for_position fails with InsufficientLiquidity if the
\* amount exceeds total_usdc or the live balance and succeeds otherwise, in
\* both cases changing nothing; open_position succeeds only if the size is at
\* most both quantities.
C17_ReserveSucceedsOtherwise ==
  [][ /\ ReservesForPosition =>
           /\ last'.err = (IF ExceedsPool THEN "InsufficientLiquidity" ELSE "Ok")
           /\ NothingChanged
           /\ last'.log = <<>>
      /\ OpensPosition =>
           LET size == market'.positions[last'.ret].size
           IN  size <= vault.total_usdc /\ size <= balance[VaultAddr] ]_vars

\* C17: reserve_for_position fails with InvalidAmount if amount <= 0,
\* otherwise with InsufficientLiquidity if the amount exceeds total_usdc or
\* the vault's live token balance, and succeeds otherwise; in every case it
\* changes no pool state and moves no tokens; open_position succeeds only if
\* the position's size is positive and at most both quantities.
C17_ReserveIsCheckOnly ==
  [][ /\ ReservesForPosition =>
           /\ last'.err = (IF last'.amount <= 0 THEN "InvalidAmount"
                           ELSE IF ExceedsPool THEN "InsufficientLiquidity"
                           ELSE "Ok")
           /\ NothingChanged
           /\ last'.log = <<>>
      /\ OpensPosition =>
           LET size == market'.positions[last'.ret].size
           IN  size > 0 /\ size <= vault.total_usdc /\ size <= balance[VaultAddr] ]_vars

\* A request the recorded total covers is refused because the tokens are no
\* longer in the vault.
C17_Witness ==
  /\ last.op = "reserve_for_position"
  /\ last.err = "InsufficientLiquidity"
  /\ last.amount <= vault.total_usdc
  /\ last.amount > balance[VaultAddr]

\* The step is a deposit that passes the pause and amount checks; its fee and
\* net amount are those of the fee setting in force.
Deposits == last'.op = "deposit" /\ ~vault.paused /\ last'.amount > 0

DepositNet ==
  last'.amount - Div(last'.amount * vault.deposit_fee_bps, BASIS_POINTS)

\* The step mints exactly `minted` shares to the depositor, or is rejected
\* with no change if that is not positive.
MintsExactly(minted) ==
  IF minted <= 0
  THEN last'.err = "InvalidAmount" /\ NothingChanged
  ELSE last'.err \in {"Ok", "HostError"}
       /\ last'.err = "Ok" =>
            /\ last'.ret = minted
            /\ vault'.total_glp = vault.total_glp + minted
            /\ vault'.glp_balance =
                 [vault.glp_balance EXCEPT ![last'.caller] = @ + minted]

\* C18 as stated: a deposit mints net shares if total shares are zero and
\* otherwise floor(net x total_shares / AUM) on the totals before the deposit.
C18_MintsProportionallyUnlessNoShares ==
  [][ Deposits =>
        IF vault.total_glp = 0
        THEN MintsExactly(DepositNet)
        ELSE /\ calculate_aum_internal(vault) # 0
             /\ MintsExactly(Div(DepositNet * vault.total_glp,
                                 calculate_aum_internal(vault))) ]_vars

\* C18: a deposit mints net shares (1:1) if total shares are zero or the AUM
\* is zero, and otherwise floor(net x total_shares / AUM) on the totals before
\* the deposit; it is rejected when that is not positive; the depositor's
\* share balance and the total supply grow by exactly the minted amount.
C18_MintsProportionally ==
  [][ Deposits =>
        IF vault.total_glp = 0 \/ calculate_aum_internal(vault) = 0
        THEN MintsExactly(DepositNet)
        ELSE MintsExactly(Div(DepositNet * vault.total_glp,
                              calculate_aum_internal(vault))) ]_vars

\* A deposit into a pool that had shares outstanding and an AUM of zero has
\* minted the net amount.
C18_Witness ==
  LET fee == Div(last.amount * vault.deposit_fee_bps, BASIS_POINTS)
  IN  /\ last.op = "deposit"
      /\ last.err = "Ok"
      /\ vault.total_glp > last.ret
      /\ vault.total_usdc + vault.total_fees = last.amount + fee
      /\ last.ret = last.amount - fee

\* The step is the withdrawal, right after a successful deposit and by its
\* depositor, of exactly the shares the deposit minted.
RoundTrip ==
  /\ last.op = "deposit"
  /\ last.err = "Ok"
  /\ last'.op = "withdraw"
  /\ last'.err = "Ok"
  /\ last'.caller = last.caller
  /\ last'.amount = last.ret

\* C19: a depositor who deposits X and immediately withdraws exactly the
\* shares that deposit minted receives at most X tokens, under any fee
\* settings the vault accepts.
C19_RoundTripNeverProfits ==
  [][ RoundTrip => last'.ret <= last.amount ]_vars

\* The step is a withdraw that passes the pause and amount checks.
Withdraws == last'.op = "withdraw" /\ ~vault.paused /\ last'.amount > 0

\* C20: withdraw(shares) fails and changes nothing if shares exceeds the
\* caller's share balance (InsufficientGlpBalance), if net <= 0
\* (InvalidAmount) or if net exceeds the vault's token balance
\* (InsufficientLiquidity), with gross = floor(shares x AUM / total_shares),
\* fee = floor(gross x withdraw_fee_bps / 10000) and net = gross - fee; on
\* success it burns exactly `shares` from the caller and from nobody else,
\* lowers total_usdc by gross, raises total_fees by fee and transfers exactly
\* net tokens to the caller.
C20_WithdrawChecksThenPays ==
  [][ Withdraws =>
        LET shares == last'.amount
            caller == last'.caller
            gross  == Div(shares * calculate_aum_internal(vault), vault.total_glp)
            fee    == Div(gross * vault.withdraw_fee_bps, BASIS_POINTS)
            net    == gross - fee
        IN  IF vault.glp_balance[caller] < shares
            THEN last'.err = "InsufficientGlpBalance" /\ NothingChanged
            ELSE IF net <= 0
            THEN last'.err = "InvalidAmount" /\ NothingChanged
            ELSE IF net > balance[VaultAddr]
            THEN last'.err = "InsufficientLiquidity" /\ NothingChanged
            ELSE /\ last'.err = "Ok"
                 /\ last'.ret = net
                 /\ vault' = [vault EXCEPT !.glp_balance[caller] = @ - shares,
                                           !.total_glp = @ - shares,
                                           !.total_usdc = @ - gross,
                                           !.total_fees = @ + fee]
                 /\ last'.log = << [ by |-> VaultAddr, from |-> VaultAddr,
                                     to |-> caller, amount |-> net ] >>
                 /\ balance' = [balance EXCEPT ![VaultAddr] = @ - net,
                                               ![caller] = @ + net]
                 /\ market' = market ]_vars

\* A withdrawal that paid a fee has succeeded while another account holds
\* shares.
C20_Witness ==
  /\ last.op = "withdraw"
  /\ last.err = "Ok"
  /\ Div(last.ret * vault.withdraw_fee_bps, BASIS_POINTS) > 0
  /\ \E a \in Accounts \ {last.caller} : vault.glp_balance[a] > 0

CloseUnder(u) ==
  LET w0 == World(market, [vault EXCEPT !.unrealized_pnl = u], balance)
  IN  Finish(w0, close_position(w0, now, last'.caller, last'.id, last'.oracle))

\* C22: update_unrealized_pnl changes the stored unrealized PnL and nothing
\* else (recorded deposits, fees, total shares, share balances, token
\* balances and the market are as before), and the settlement of a later
\* close_position, its result and its token transfers, is the same whatever
\* unrealized PnL is stored.
C22_UnrealizedPnlOnlyPrices ==
  [][ /\ last'.op = "update_unrealized_pnl" =>
           /\ last'.err = "Ok"
           /\ vault' = [vault EXCEPT !.unrealized_pnl = last'.amount]
           /\ balance' = balance
           /\ market' = market
           /\ last'.log = <<>>
      /\ (ClosesOwnPosition /\ vault.unrealized_pnl # 0) =>
           \A u \in UnrealizedPnls \cup {0} :
             /\ CloseUnder(u).err = last'.err
             /\ CloseUnder(u).w.log = last'.log
             /\ CloseUnder(u).w.b = balance'
             /\ CloseUnder(u).w.v.total_usdc = vault'.total_usdc ]_vars

\* A win has been settled out of a pool whose stored unrealized PnL exceeds
\* its deposits and fees.
C22_Witness ==
  /\ last.op = "close_position"
  /\ last.err = "Ok"
  /\ last.ret > 0
  /\ vault.unrealized_pnl > vault.total_usdc + vault.total_fees + last.ret

\* C23: removing an id that is in neither the ledger nor the indices leaves
\* the market's storage as it is, so that removing a position twice is the
\* same as removing it once; and a close_position or liquidate of an id
\* already removed fails and leaves the long and short totals, with all the
\* rest of the market, untouched.
C23_RemovalIsIdempotent ==
  [][ /\ \A id \in PositionIds, trader \in Traders :
           id \notin DOMAIN market'.positions =>
             delete_position(market', id, trader) = market'
      /\ \A id \in DOMAIN market'.positions :
           LET trader == market'.positions[id].trader
               once   == delete_position(market', id, trader)
           IN  delete_position(once, id, trader) = once
      /\ (last'.op \in {"close_position", "liquidate"} /\ Retired(last'.id)) =>
           /\ last'.err = "PositionNotFound"
           /\ market'.total_long_size = market.total_long_size
           /\ market'.total_short_size = market.total_short_size
           /\ market' = market ]_vars

\* A liquidate of an id already removed has failed while another position of
\* the same trader is live.
C23_Witness ==
  /\ last.op = "liquidate"
  /\ last.err = "PositionNotFound"
  /\ Retired(last.id)
  /\ \E id \in DOMAIN market.positions : market.trader_positions[market.positions[id].trader] # <<>>
  /\ market.total_long_size + market.total_short_size > 0

\* The step evaluates function fn; its arguments are last'.args.
Evaluates(fn) == last.op = "input" /\ last'.op = fn

\* C24: calculate_funding_rate(L, S, base) is 0 when L = S; otherwise, with
\* D the larger of L and S, it is (base x ((|L - S| x 10000) div D)) div 10000
\* in magnitude, positive when L > S and negative when S > L; so it changes
\* sign when L and S are swapped, and its magnitude is at most base.
C24_FundingRateByImbalance ==
  [][ Evaluates("calculate_funding_rate") =>
        LET L    == last'.args.total_long_size
            S    == last'.args.total_short_size
            base == last'.args.base_rate_bps
            D    == Max(L, S)
            magnitude == (base * ((Abs(L - S) * 10000) \div D)) \div 10000
        IN  /\ L = S => last'.ret = 0
            /\ L > S => last'.ret = magnitude
            /\ S > L => last'.ret = -magnitude
            /\ last'.ret = -calculate_funding_rate(S, L, base)
            /\ Abs(last'.ret) <= base
            /\ (L = 2000 /\ S = 1000 /\ base = 10) => last'.ret = 5
            /\ (L = 1000 /\ S = 2000 /\ base = 10) => last'.ret = -5 ]_vars

\* The rate of a market with twice as many shorts as longs has been computed.
C24_Witness ==
  /\ last.op = "calculate_funding_rate"
  /\ last.args.total_short_size = 2 * last.args.total_long_size
  /\ last.args.total_long_size > 0
  /\ last.ret < 0

\* C25: the funding payment is 0 whenever hours_elapsed = 0 or rate = 0;
\* otherwise its magnitude is size x |rate| x hours div 10000, and it is
\* positive (pays) for a Long when rate > 0 and for a Short when rate < 0 and
\* negative (receives) otherwise, so that the Short's payment is the negation
\* of the Long's; calculate_funding_payment of math.rs and
\* calculate_funding_payment_internal of funding.rs agree.
C25_FundingPaymentBySide ==
  [][ Evaluates("calculate_funding_payment") =>
        LET size  == last'.args.position_size
            rate  == last'.args.funding_rate
            hours == last'.args.hours_elapsed
            long  == last'.args.direction = "Long"
            magnitude == (size * Abs(rate) * hours) \div 10000
            Other == IF long THEN "Short" ELSE "Long"
        IN  /\ (hours = 0 \/ rate = 0) => last'.ret.math = 0
            /\ (hours # 0 /\ rate # 0) =>
                 last'.ret.math = IF long = (rate > 0) THEN magnitude ELSE -magnitude
            /\ last'.ret.math = -calculate_funding_payment(size, rate, Other, hours)
            /\ last'.ret.funding = last'.ret.math ]_vars

\* A Short has been paid funding over three hours at a positive rate, the
\* amount being rounded.
C25_Witness ==
  /\ last.op = "calculate_funding_payment"
  /\ last.args.direction = "Short"
  /\ last.args.funding_rate > 0
  /\ last.args.hours_elapsed > 1
  /\ last.ret.math < 0
  /\ (last.args.position_size * last.args.funding_rate * last.args.hours_elapsed)
       % BASIS_POINTS # 0

\* C26: calculate_pnl is size x (current - entry) / entry for a Long and
\* size x (entry - current) / entry for a Short, the division truncating
\* toward zero, so that the Short's PnL is the negation of the Long's; it
\* fails with DivisionByZero exactly when the entry price is 0, and no
\* position that open_position created has an entry price of 0, so that no
\* close_position or liquidate fails with it.
C26_PnlBySide ==
  [][ /\ Evaluates("calculate_pnl") =>
           LET size    == last'.args.size
               entry   == last'.args.entry_price
               current == last'.args.current_price
               Other   == IF last'.args.direction = "Long" THEN "Short" ELSE "Long"
               mirror  == calculate_pnl_result([last'.args EXCEPT !.direction = Other],
                                               current)
           IN  /\ (last'.ret.err = "DivisionByZero") = (entry = 0)
               /\ entry # 0 =>
                    /\ last'.ret.err = "Ok"
                    /\ last'.ret.value =
                         IF last'.args.direction = "Long"
                         THEN Div(size * (current - entry), entry)
                         ELSE Div(size * (entry - current), entry)
                    /\ mirror.value = -last'.ret.value
      /\ \A id \in DOMAIN market'.positions : market'.positions[id].entry_price > 0
      /\ last'.op \in {"close_position", "liquidate"} => last'.err # "DivisionByZero" ]_vars

\* The loss of a Short whose entry price does not divide it has been
\* computed.
C26_Witness ==
  /\ last.op = "calculate_pnl"
  /\ last.args.direction = "Short"
  /\ last.ret.err = "Ok"
  /\ last.ret.value < 0
  /\ (last.args.size * (last.args.current_price - last.args.entry_price))
       % last.args.entry_price # 0

\* C27: at leverage 10 and a maintenance margin of 100 bps, for every positive
\* entry price, the liquidation price of a Long is strictly between
\* 0.85 x entry and entry, and that of a Short strictly between entry and
\* 1.15 x entry.
C27_LiquidationPriceWithinBand ==
  [][ ( /\ Evaluates("calculate_liquidation_price")
        /\ last'.args.leverage = 10
        /\ last'.args.maintenance_margin_bps = 100
        /\ last'.args.entry_price > 0 ) =>
        LET entry == last'.args.entry_price
            liq   == last'.ret
        IN  IF last'.args.direction = "Long"
            THEN 85 * entry < 100 * liq /\ liq < entry
            ELSE entry < liq /\ 100 * liq < 115 * entry ]_vars

\* The oracle answer of the step is older than the configured bound.
Stale ==
  /\ now > last'.oracle.timestamp
  /\ now - last'.oracle.timestamp > market.config.max_price_staleness

\* The invocation of the step gets as far as asking the oracle for a price.
AsksPrice ==
  \/ ClosesOwnPosition
  \/ LiquidatesStoredPosition
  \/ /\ last'.op = "open_position"
     /\ ~market.paused
     /\ FirstFailedCheck \in {"PriceStale", "InvalidPrice", "Ok"}

\* C28: every price that open_position, close_position or liquidate uses is
\* positive and not older than max_price_staleness: a call that is given a
\* price older than that fails with PriceStale and one that is given a price
\* <= 0 fails with InvalidPrice (PriceStale if it is also too old), and the
\* failed call has written no state and moved no tokens.
C28_PricesAreFreshAndPositive ==
  [][ AsksPrice =>
        /\ Stale => last'.err = "PriceStale"
        /\ (~Stale /\ FetchedPrice <= 0) => last'.err = "InvalidPrice"
        /\ last'.err = "PriceStale" => Stale
        /\ last'.err = "InvalidPrice" => FetchedPrice <= 0
        /\ last'.err \in {"PriceStale", "InvalidPrice"} =>
             NothingChanged /\ last'.log = <<>>
        /\ last'.err = "Ok" => FetchedPrice > 0 /\ ~Stale ]_vars

\* A liquidate of a live position has been refused for a price that is too
\* old, though at that price the position is liquidatable.
C28_Witness ==
  /\ last.op = "liquidate"
  /\ last.err = "PriceStale"
  /\ last.id \in DOMAIN market.positions
  /\ should_liquidate(market.positions[last.id], last.oracle.price)

PausableOps == {"open_position", "close_position", "add_collateral"}

\* What the liquidate of the step does in a market that is not paused and is
\* otherwise the same.
LiquidateUnpaused ==
  LET w0 == World([market EXCEPT !.paused = FALSE], vault, balance)
  IN  Finish(w0, liquidate(w0, now, last'.caller, last'.id, last'.oracle))

\* C29: while the market is paused, open_position, close_position and
\* add_collateral fail with Paused and change nothing; liquidate is not
\* refused and has the result, the stores and the token transfers it has in
\* the same market unpaused; unpause clears the flag, and in a market that is
\* not paused none of the three fails with Paused.
C29_PauseStopsTradersNotKeepers ==
  [][ /\ (market.paused /\ last'.op \in PausableOps) =>
           /\ last'.err = "Paused"
           /\ NothingChanged
           /\ last'.log = <<>>
      /\ (market.paused /\ last'.op = "liquidate") =>
           /\ last'.err # "Paused"
           /\ last'.err = LiquidateUnpaused.err
           /\ last'.ret = LiquidateUnpaused.ret
           /\ last'.log = LiquidateUnpaused.w.log
           /\ market' = [LiquidateUnpaused.w.m EXCEPT !.paused = TRUE]
           /\ vault' = LiquidateUnpaused.w.v
           /\ balance' = LiquidateUnpaused.w.b
      /\ last'.op = "unpause" => last'.err = "Ok" /\ ~market'.paused
      /\ (~market.paused /\ last'.op \in PausableOps) => last'.err # "Paused" ]_vars

\* A position has been liquidated, and its keeper paid, while the market is
\* paused.
C29_Witness ==
  /\ last.op = "liquidate"
  /\ last.err = "Ok"
  /\ last.ret > 0
  /\ market.paused
  /\ last.id \notin DOMAIN market.positions

OwnerOps == {"close_position", "add_collateral"}

\* The position the call of the step names is stored, and its owner.
NamesLive == last'.id \in DOMAIN market.positions
ByOwner == market.positions[last'.id].trader = last'.caller

\* The call of the step passes the checks made before the position is looked
\* up: the market is not paused and a top-up is positive.
ReachesLookup ==
  /\ ~market.paused
  /\ last'.op = "add_collateral" => last'.amount > 0

\* C30 as stated: close_position and add_collateral succeed only when the
\* caller owns the live position; by any other trader they fail with
\* NotPositionOwner and nothing is written or transferred; on an id that is
\* not live they fail with PositionNotFound.
C30_OwnerOnlyElseNotOwner ==
  [][ last'.op \in OwnerOps =>
        /\ last'.err = "Ok" => NamesLive /\ ByOwner
        /\ (NamesLive /\ ~ByOwner) =>
             /\ last'.err = "NotPositionOwner"
             /\ NothingChanged
             /\ last'.log = <<>>
        /\ ~NamesLive => last'.err = "PositionNotFound" ]_vars

\* C30 amended: the same, for calls that pass the earlier checks; a call in a
\* paused market fails with Paused and, in a market that is not paused, an
\* add_collateral of an amount <= 0 fails with InvalidAmount, whoever calls
\* and whatever the id, and nothing is written or transferred.
C30_OwnerOnlyAfterEarlierChecks ==
  [][ last'.op \in OwnerOps =>
        /\ last'.err = "Ok" => NamesLive /\ ByOwner
        /\ (ReachesLookup /\ NamesLive /\ ~ByOwner) =>
             /\ last'.err = "NotPositionOwner"
             /\ NothingChanged
             /\ last'.log = <<>>
        /\ (ReachesLookup /\ ~NamesLive) =>
             /\ last'.err = "PositionNotFound"
             /\ NothingChanged
             /\ last'.log = <<>>
        /\ market.paused =>
             last'.err = "Paused" /\ NothingChanged /\ last'.log = <<>>
        /\ (~market.paused /\ ~ReachesLookup) =>
             last'.err = "InvalidAmount" /\ NothingChanged /\ last'.log = <<>> ]_vars

\* A trader who can pay the top-up has been refused on a live position of
\* another trader.
C30_Witness ==
  /\ last.op = "add_collateral"
  /\ last.err = "NotPositionOwner"
  /\ last.id \in DOMAIN market.positions
  /\ market.positions[last.id].trader # last.caller
  /\ balance[last.caller] >= last.amount
  /\ ~market.paused

\* What the liquidate of the step pushed to the keeper and to the pool.
KeeperReward == Moved(last'.log, MarketAddr, last'.caller)
PoolShare == Moved(last'.log, MarketAddr, VaultAddr)

\* The successful liquidate of a position with collateral > 0 pays out the
\* collateral, split between keeper and pool, and returns the keeper's part.
PaysOutCollateral ==
  LET position == market.positions[last'.id]
  IN  /\ KeeperReward >= 0
      /\ PoolShare >= 0
      /\ KeeperReward <= position.collateral
      /\ KeeperReward + PoolShare = position.collateral
      /\ last'.ret = KeeperReward
      /\ balance'[MarketAddr] = balance[MarketAddr] - position.collateral
      /\ \A i \in 1..Len(last'.log) :
           /\ last'.log[i].from = MarketAddr
           /\ last'.log[i].to \in {last'.caller, VaultAddr}

LiquidatesFunded ==
  /\ LiquidatesStoredPosition
  /\ last'.err = "Ok"
  /\ market.positions[last'.id].collateral > 0

C32_TopUpMovesLiquidationPriceAway ==
  [][ (last'.op = "add_collateral" /\ last'.err = "Ok" /\ last'.amount > 0) =>
        LET old == market.positions[last'.id]
            new == market'.positions[last'.id]
        IN  /\ IF old.direction = "Long"
               THEN new.liquidation_price <= old.liquidation_price
               ELSE new.liquidation_price >= old.liquidation_price
            /\ new.collateral = old.collateral + last'.amount
            /\ new.size = old.size
            /\ new.entry_price = old.entry_price
            /\ new.direction = old.direction
            /\ market'.total_long_size = market.total_long_size
            /\ market'.total_short_size = market.total_short_size
            /\ DOMAIN market'.positions = DOMAIN market.positions
            /\ \A id \in DOMAIN market.positions \ {last'.id} :
                 market'.positions[id] = market.positions[id] ]_vars

\* C33 as stated: open_position accepts a collateral only if it is strictly
\* greater than the configured minimum; a collateral equal to or below the
\* minimum is rejected with InsufficientCollateral and nothing changes.
C33_CollateralAboveMinimum ==
  [][ (last'.op = "open_position" /\ ~market.paused) =>
        /\ last'.err = "Ok" => last'.amount > market.config.min_collateral
        /\ last'.amount <= market.config.min_collateral =>
             /\ last'.err = "InsufficientCollateral"
             /\ NothingChanged
             /\ last'.log = <<>> ]_vars

\* C33 amended: on a market that is not paused open_position rejects a
\* collateral with InsufficientCollateral, changing nothing, exactly when it
\* is strictly below the configured minimum; a collateral equal to the
\* minimum passes this check like any larger one, and the call succeeds when
\* the later checks pass.
C33_CollateralAtLeastMinimum ==
  [][ (last'.op = "open_position" /\ ~market.paused) =>
        /\ last'.err = "Ok" => last'.amount >= market.config.min_collateral
        /\ last'.amount < market.config.min_collateral =>
             /\ last'.err = "InsufficientCollateral"
             /\ NothingChanged
             /\ last'.log = <<>>
        /\ last'.amount >= market.config.min_collateral =>
             /\ last'.err # "InsufficientCollateral"
             /\ last'.err = FirstFailedCheck \/ last'.err = "HostError" ]_vars

\* A position has been opened with a collateral equal to the configured
\* minimum, which is not zero.
C33_Witness ==
  /\ last.op = "open_position"
  /\ last.err = "Ok"
  /\ last.amount = market.config.min_collateral
  /\ last.amount > 0
  /\ last.ret \in DOMAIN market.positions

\* C34: a successful open_position with supplied collateral c and leverage L
\* takes fee = floor(c x L x trading_fee_bps / 10000): the trader's token
\* balance falls by exactly c, the pool's rises by exactly fee, the engine's
\* rises by exactly c - fee, and the position is recorded with collateral
\* c - fee, accumulated funding 0 and last funding time equal to its
\* opened-at time.
C34_FeeSplitsSuppliedCollateral ==
  [][ OpensPosition =>
        LET c        == last'.amount
            fee      == (c * last'.leverage * market.config.trading_fee_bps)
                          \div BASIS_POINTS
            position == market'.positions[last'.ret]
        IN  /\ balance'[last'.caller] = balance[last'.caller] - c
            /\ balance'[VaultAddr] = balance[VaultAddr] + fee
            /\ balance'[MarketAddr] = balance[MarketAddr] + c - fee
            /\ \A a \in Accounts \ {last'.caller, VaultAddr, MarketAddr} :
                 balance'[a] = balance[a]
            /\ position.collateral = c - fee
            /\ position.accumulated_funding = 0
            /\ position.timestamp = now
            /\ position.last_funding_time = position.timestamp ]_vars

\* A position has been opened whose fee is not a whole number of basis
\* points of its size: the fee has been rounded down and is not zero.
C34_Witness ==
  /\ last.op = "open_position"
  /\ last.err = "Ok"
  /\ Len(last.log) = 2
  /\ last.log[2].to = VaultAddr
  /\ last.log[2].amount > 0
  /\ last.log[2].amount * BASIS_POINTS
       < last.amount * last.leverage * market.config.trading_fee_bps

RECURSIVE SumOfShares(_, _)
SumOfShares(glp_balance, holders) ==
  IF holders = {} THEN 0
  ELSE LET a == CHOOSE x \in holders : TRUE
       IN  glp_balance[a] + SumOfShares(glp_balance, holders \ {a})

\* Every share balance but those of the named holders is as before the step.
OtherSharesKept(holders) ==
  \A a \in Accounts \ holders : vault'.glp_balance[a] = vault.glp_balance[a]

\* C35: after any sequence of share mints, burns and transfers of amounts
\* that are not negative, and of the deposits and withdrawals that drive
\* them, the total share supply is the sum of all holders' balances and no
\* balance is negative: mint adds the amount to one balance and to the supply,
\* burn removes it from both and is refused when the holder has less,
\* transfer leaves the supply unchanged.
C35_SharesSumToSupply ==
  [][ /\ vault'.total_glp = SumOfShares(vault'.glp_balance, Accounts)
      /\ \A a \in Accounts : vault'.glp_balance[a] >= 0
      /\ last'.op = "glp_mint" =>
           /\ last'.err = "Ok"
           /\ vault'.glp_balance[last'.caller]
                = vault.glp_balance[last'.caller] + last'.amount
           /\ vault'.total_glp = vault.total_glp + last'.amount
           /\ OtherSharesKept({last'.caller})
      /\ (last'.op = "glp_burn" /\ vault.glp_balance[last'.caller] >= last'.amount) =>
           /\ last'.err = "Ok"
           /\ vault'.glp_balance[last'.caller]
                = vault.glp_balance[last'.caller] - last'.amount
           /\ vault'.total_glp = vault.total_glp - last'.amount
           /\ OtherSharesKept({last'.caller})
      /\ (last'.op \in {"glp_burn", "glp_transfer"}
            /\ vault.glp_balance[last'.caller] < last'.amount) =>
           last'.err # "Ok" /\ vault' = vault
      /\ (last'.op = "glp_transfer" /\ last'.err = "Ok") =>
           /\ vault'.total_glp = vault.total_glp
           /\ OtherSharesKept({last'.caller, last'.ret})
           /\ last'.ret # last'.caller =>
                /\ vault'.glp_balance[last'.caller]
                     = vault.glp_balance[last'.caller] - last'.amount
                /\ vault'.glp_balance[last'.ret]
                     = vault.glp_balance[last'.ret] + last'.amount
           /\ last'.ret = last'.caller => vault' = vault
      /\ (last'.op = "deposit" /\ last'.err = "Ok") =>
           vault'.total_glp = vault.total_glp + last'.ret
      /\ (last'.op = "withdraw" /\ last'.err = "Ok") =>
           vault'.total_glp = vault.total_glp - last'.amount ]_vars

\* Shares minted by a deposit have been transferred to another holder, who
\* holds them next to the depositor's remainder.
C35_Witness ==
  /\ last.op = "glp_transfer"
  /\ last.err = "Ok"
  /\ last.amount > 0
  /\ last.ret # last.caller
  /\ vault.glp_balance[last.caller] > 0
  /\ vault.glp_balance[last.ret] = last.amount
  /\ vault.total_usdc > 0

RECURSIVE SumOfCollateral(_, _)
SumOfCollateral(positions, ids) ==
  IF ids = {} THEN 0
  ELSE LET i == CHOOSE x \in ids : TRUE
       IN  positions[i].collateral + SumOfCollateral(positions, ids \ {i})

\* C36: in every reachable state the engine's token balance is at least the
\* sum of the recorded collateral of all live positions: no close_position or
\* liquidate pays out tokens that back another live position.
C36_EngineHoldsLiveCollateral ==
  balance[MarketAddr] >= SumOfCollateral(market.positions, DOMAIN market.positions)

\* C37: in every state reachable through deposit, withdraw, open_position,
\* close_position, add_collateral, liquidate and apply_funding the pool's
\* live token balance is at least its recorded total_usdc, so that a win the
\* live balance cannot pay exceeds the recorded total as well: the check of
\* the recorded total in settle_pnl and reserve_for_position is never the
\* weaker of the two.
C37_PoolHoldsRecordedDeposits ==
  [][ /\ balance'[VaultAddr] >= vault'.total_usdc
      /\ (ClosesOwnPosition /\ last'.err = "InsufficientLiquidity") =>
           calculate_pnl(market.positions[last'.id], FetchedPrice) > vault.total_usdc
      /\ (last'.op = "open_position" /\ last'.err = "InsufficientLiquidity") =>
           last'.amount * last'.leverage > vault.total_usdc ]_vars

\* A win has been paid by the pool, which still holds more tokens than it
\* records as deposits.
C37_Witness ==
  /\ last.op = "close_position"
  /\ last.err = "Ok"
  /\ last.ret > 0
  /\ Moved(last.log, VaultAddr, MarketAddr) = last.ret
  /\ vault.total_usdc > 0
  /\ balance[VaultAddr] > vault.total_usdc

\* C38: the pool's recorded deposits (total_usdc) are never negative: no
\* sequence of deposits, withdrawals and settlements, under any fee setting
\* the vault accepts, decrements total_usdc below zero.
C38_RecordedDepositsNeverNegative == vault.total_usdc >= 0

\* The funding fields of the stored position are those it was opened with.
FundingNeverStored(position) ==
  /\ position.accumulated_funding = 0
  /\ position.last_funding_time = position.timestamp

C40_VerifiedLiquidityStaysAvailable ==
  [][ ( /\ ClosesOwnPosition
        /\ get_oracle_price(market.config, last'.oracle, now) = "Ok"
        /\ LET position == market.positions[last'.id]
               pnl      == calculate_pnl(position, FetchedPrice)
           IN  0 < pnl /\ pnl <= position.size ) =>
        last'.err # "InsufficientLiquidity" ]_vars

====
